---------------------------- MODULE Spec2Model ----------------------------
(***************************************************************************)
(* Search orchestration, result processing and chat routes of the          *)
(* financial agent.                                                        *)
(*                                                                         *)
(*   Spec       one SearchOrchestrator serving direct executeParallelSearch *)
(*              calls, provider completions, the race timeout, the         *)
(*              deferred clean-up of the active-search map and cancelSearch *)
(*   SpecBatch  one executeBatchSearch call over the same orchestrator     *)
(*   SpecDedup  ResultsProcessor.deduplicateResults applied once and twice *)
(*              to a list of normalized records                            *)
(*   SpecCalls  one direct call of scoreResults, determineCategory,        *)
(*              combineSearchResults, processSearchResults, the processing *)
(*              phase of executeFinancialSearch or sendChatMessageStream   *)
(*   SpecChat   one request to POST /api/chat or POST /api/chat/stream     *)
(*   SpecHook   the useChat hook of the frontend under sendMessage calls    *)
(*   SpecTimers, SpecBatchTimers  Spec and SpecBatch with their timers      *)
(*              firing (weak fairness), for the liveness properties         *)
(*                                                                         *)
(* One action is one event-loop task: the synchronous code of the handler  *)
(* together with the promise continuations (microtasks) it makes runnable. *)
(***************************************************************************)
EXTENDS Integers, Sequences, FiniteSets, TLC

VARIABLES
    config,          \* SearchOrchestrator.config
    activeSearches,  \* SearchOrchestrator.activeSearches: searchId -> searchOperation
    calls,           \* one record per executeParallelSearch invocation
    batch,           \* the executeBatchSearch invocation
    nextId,          \* the next fresh searchId
    lastCancel,      \* argument and return value of the latest cancelSearch call
    dedupInput,      \* list handed to deduplicateResults
    dedupOnce,       \* deduplicateResults(dedupInput)
    dedupTwice,      \* deduplicateResults(dedupOnce)
    dedupPhase,      \* "input" | "once" | "twice"
    callInput,       \* a direct call of a pure method: its name and argument
    callOutput,      \* what that call returned or threw
    request,         \* the POST request a chat route is handling
    response,        \* the express response object of that request
    workflow,        \* the executeFinancialSearch invocation of POST /api/chat
    stream,          \* the streamMessageInChunks invocation of POST /api/chat/stream
    serviceCalls,    \* planning, search and answering calls made for the request
    useChat          \* the state of the useChat hook and its sendMessage calls

orchVars == <<config, activeSearches, calls, batch, nextId, lastCancel>>
dedupVars == <<dedupInput, dedupOnce, dedupTwice, dedupPhase>>
callVars == <<callInput, callOutput>>
chatVars == <<request, response, workflow, stream, serviceCalls>>
hookVars == <<useChat>>
vars == <<config, activeSearches, calls, batch, nextId, lastCancel,
          dedupInput, dedupOnce, dedupTwice, dedupPhase,
          callInput, callOutput, request, response, workflow, stream, serviceCalls,
          useChat>>

----------------------------------------------------------------------------
(* Bounds of the model. *)

MaxSearches == 1      \* executeParallelSearch calls made directly (Spec)
MaxQueries == 2       \* longest query list handed to executeBatchSearch
MaxChunk == 2         \* largest chunk size (maxConcurrent) tried

(* Program constants. *)

DefaultMaxConcurrentQueries == 3   \* orchestratorConfig.maxConcurrentQueries
HighConfidenceValue == 90          \* combineSearchResults: confidence === 'high'
DefaultConfidenceValue == 50       \* combineSearchResults: relevanceScore || 50

----------------------------------------------------------------------------
(* JavaScript values.  null is the record Null; an absent property is a    *)
(* field missing from the record's domain.                                 *)

Null == [isNull |-> TRUE]

Has(obj, field) == field \in DOMAIN obj

Put(obj, field, value) ==
    [f \in DOMAIN obj \cup {field} |-> IF f = field THEN value ELSE obj[f]]

EmptyObject == [f \in {} |-> Null]

SearchStatus ==
    [PENDING |-> "pending", IN_PROGRESS |-> "in_progress", COMPLETED |-> "completed",
     FAILED |-> "failed", TIMEOUT |-> "timeout", CANCELLED |-> "cancelled"]

Providers == {"perplexity", "firecrawl"}

(* Query strings are opaque to the orchestrator. *)
QueryNames == <<"q1", "q2", "q3", "q4", "q5">>

Queries == {QueryNames[1]}

SearchIds == 1..MaxSearches

(* The option objects a caller passes: each enable flag given or left out. *)
EnableOptions ==
    UNION {[S -> BOOLEAN] : S \in SUBSET {"enablePerplexity", "enableFirecrawl"}}

----------------------------------------------------------------------------
(* What the provider adapters hand back.                                   *)

(* searchWithPerplexity never throws: its catch turns a failure into a     *)
(* record that carries an error field.                                     *)
PerplexityResult(outcome) ==
    IF outcome = "ok"
    THEN [source |-> "perplexity", content |-> "text", confidence |-> "high"]
    ELSE [source |-> "perplexity", content |-> "null", error |-> "api error",
          confidence |-> "failed"]

PerplexityOutcomes == {"ok", "error"}

(* extractDataForQuery throws when the configuration is invalid; otherwise *)
(* it returns the scrapes that succeeded, sorted by relevance, possibly    *)
(* none of them.                                                           *)
FirecrawlResult(outcome) ==
    [source |-> "firecrawl",
     successful |->
        IF outcome = "ok"
        THEN <<[success |-> TRUE, data |-> [relevanceScore |-> 95]],
               [success |-> TRUE, data |-> [relevanceScore |-> 80]]>>
        ELSE <<>>]

FirecrawlOutcomes == {"ok", "empty", "throw"}

----------------------------------------------------------------------------
(* combineSearchResults and createFallbackResults.                         *)

PerplexityUsable_ignoresError(perplexity) == perplexity # Null

PerplexityUsable(perplexity) == perplexity # Null /\ ~Has(perplexity, "error")

FirecrawlUsable(firecrawl) == firecrawl # Null /\ Len(firecrawl.successful) > 0

RECURSIVE SumSeq(_)
SumSeq(s) == IF s = <<>> THEN 0 ELSE Head(s) + SumSeq(Tail(s))

(* Math.round(sum / n) for sum >= 0, n > 0 *)
RoundDiv(sum, n) == (2 * sum + n) \div (2 * n)

(* result.confidence === 'high' ? 90 : result.relevanceScore || 50 *)
EntryConfidence(entry) ==
    IF Has(entry, "confidence") /\ entry.confidence = "high" THEN HighConfidenceValue
    ELSE IF Has(entry, "relevanceScore") /\ entry.relevanceScore # 0
         THEN entry.relevanceScore
         ELSE DefaultConfidenceValue

combineSearchResults(searchOperation) ==
    LET perplexity == searchOperation.results.perplexity
        firecrawl == searchOperation.results.firecrawl
        pOk == PerplexityUsable(perplexity)
        fOk == FirecrawlUsable(firecrawl)
        sources == (IF pOk THEN <<"perplexity">> ELSE <<>>)
                   \o (IF fOk THEN <<"firecrawl">> ELSE <<>>)
        allResults ==
            (IF pOk THEN <<[source |-> "perplexity",
                            confidence |-> perplexity.confidence]>>
                    ELSE <<>>)
            \o (IF fOk
                THEN [i \in 1..Len(firecrawl.successful) |->
                        LET data == firecrawl.successful[i].data
                        IN  IF Has(data, "relevanceScore")
                            THEN [source |-> "firecrawl",
                                  relevanceScore |-> data.relevanceScore]
                            ELSE [source |-> "firecrawl"]]
                ELSE <<>>)
        confidences == [i \in 1..Len(allResults) |-> EntryConfidence(allResults[i])]
    IN  [query |-> searchOperation.query,
         sources |-> sources,
         allResults |-> allResults,
         summary |->
            [totalSources |-> Len(sources),
             perplexityAvailable |-> pOk,
             firecrawlAvailable |-> fOk,
             combinedConfidence |->
                IF Len(allResults) > 0
                THEN RoundDiv(SumSeq(confidences), Len(allResults))
                ELSE 0]]

createFallbackResults_ignoresErrorField(searchId, searchOperation) ==
    LET perplexity == searchOperation.results.perplexity
        firecrawl == searchOperation.results.firecrawl
        combinedResults == combineSearchResults(searchOperation)
    IN  IF perplexity # Null \/ FirecrawlUsable(firecrawl)
        THEN [searchId |-> searchId,
              query |-> searchOperation.query,
              results |-> combinedResults,
              status |-> "partial_success",
              sources |-> combinedResults.sources,
              errors |-> searchOperation.errors]
        ELSE Null

createFallbackResults(searchId, searchOperation) ==
    LET perplexity == searchOperation.results.perplexity
        firecrawl == searchOperation.results.firecrawl
        combinedResults == combineSearchResults(searchOperation)
    IN  IF PerplexityUsable(perplexity) \/ FirecrawlUsable(firecrawl)
        THEN [searchId |-> searchId,
              query |-> searchOperation.query,
              results |-> combinedResults,
              status |-> "partial_success",
              sources |-> combinedResults.sources,
              errors |-> searchOperation.errors]
        ELSE Null

----------------------------------------------------------------------------
(* executeParallelSearch.  The part up to the first suspension point runs  *)
(* inside the caller's task; the part after `await Promise.race` runs in   *)
(* the task that settles the race (the last provider completion, or the    *)
(* timeout timer).                                                         *)

TimeoutMessage == "Search timeout"

NoProvidersMessage == "No search providers enabled"

(* error.message.includes('timeout') *)
MentionsTimeout(message) == message = TimeoutMessage

ResolveEnabled_truthyOr(options, cfg, field) ==
    (Has(options, field) /\ options[field]) \/ cfg[field]

(* options.enableX ?? this.config.enableX *)
ResolveEnabled(options, cfg, field) ==
    IF Has(options, field) THEN options[field] ELSE cfg[field]

NewSearchOperation(query, options, cfg) ==
    [query |-> query,
     status |-> SearchStatus.IN_PROGRESS,
     enablePerplexity |-> ResolveEnabled(options, cfg, "enablePerplexity"),
     enableFirecrawl |-> ResolveEnabled(options, cfg, "enableFirecrawl"),
     results |-> [perplexity |-> Null, firecrawl |-> Null, combined |-> Null],
     errors |-> EmptyObject]

(* The try block after the race resolved: lines 109-128.  Yields the       *)
(* operation as left behind and the value the call resolves with.          *)
CompletePath(searchId, searchOperation) ==
    LET combinedResults == combineSearchResults(searchOperation)
    IN  [operation |->
            [searchOperation EXCEPT !.results.combined = combinedResults,
                                    !.status = SearchStatus.COMPLETED],
         pc |-> "resolved",
         path |-> "try",
         value |->
            [searchId |-> searchId,
             query |-> searchOperation.query,
             results |-> combinedResults,
             status |-> SearchStatus.COMPLETED,
             sources |->
                [perplexity |-> searchOperation.results.perplexity # Null,
                 firecrawl |-> searchOperation.results.firecrawl # Null]]]

(* The catch block: lines 130-146. *)
CatchPath(searchId, searchOperation, message, cfg) ==
    LET failed ==
            Put([searchOperation EXCEPT
                    !.status = IF MentionsTimeout(message) THEN SearchStatus.TIMEOUT
                                                           ELSE SearchStatus.FAILED],
                "error", message)
        fallbackResults ==
            IF cfg.fallbackEnabled THEN createFallbackResults(searchId, failed) ELSE Null
    IN  [operation |-> failed,
         pc |-> IF fallbackResults # Null THEN "resolved" ELSE "rejected",
         path |-> "catch",
         value |-> IF fallbackResults # Null THEN fallbackResults
                                           ELSE [message |-> message]]

(* A world is the orchestrator's heap while one task runs.  Beside the     *)
(* active-search map it holds, per executeParallelSearch invocation, the   *)
(* state of its promise (pc, value), the branch that settled it (path) and *)
(* how each provider call stands: "off", "inflight", or the way it ended.  *)
World(act, cs, b, n) == [activeSearches |-> act, calls |-> cs, batch |-> b, nextId |-> n]

Extend(f, key, value) == [k \in DOMAIN f \cup {key} |-> IF k = key THEN value ELSE f[k]]

(* Lines 57-107: create the operation, register it, start the enabled      *)
(* providers, and either fail at once (no provider) or suspend on the race. *)
BeginSearch(w, query, options, origin, cfg) ==
    LET searchId == w.nextId
        searchOperation == NewSearchOperation(query, options, cfg)
        noProviders == ~searchOperation.enablePerplexity /\ ~searchOperation.enableFirecrawl
        caught == CatchPath(searchId, searchOperation, NoProvidersMessage, cfg)
        call ==
            [query |-> query,
             origin |-> origin,
             perplexity |-> IF searchOperation.enablePerplexity THEN "inflight" ELSE "off",
             firecrawl |-> IF searchOperation.enableFirecrawl THEN "inflight" ELSE "off",
             pc |-> IF noProviders THEN caught.pc ELSE "racing",
             path |-> IF noProviders THEN caught.path ELSE "none",
             value |-> IF noProviders THEN caught.value ELSE Null]
    IN  [w EXCEPT
            !.activeSearches =
                Extend(@, searchId,
                       IF noProviders THEN caught.operation ELSE searchOperation),
            !.calls = Extend(@, searchId, call),
            !.nextId = @ + 1]

(* Promise.allSettled(searchPromises) resolved before the timeout fired. *)
AllSettled(call) == call.perplexity # "inflight" /\ call.firecrawl # "inflight"

RaceResolved(w, searchId) ==
    LET done == CompletePath(searchId, w.activeSearches[searchId])
    IN  IF w.calls[searchId].pc = "racing" /\ AllSettled(w.calls[searchId])
        THEN [w EXCEPT !.activeSearches[searchId] = done.operation,
                       !.calls[searchId].pc = done.pc,
                       !.calls[searchId].path = done.path,
                       !.calls[searchId].value = done.value]
        ELSE w

RaceRejected(w, searchId, cfg) ==
    LET caught == CatchPath(searchId, w.activeSearches[searchId], TimeoutMessage, cfg)
    IN  [w EXCEPT !.activeSearches[searchId] = caught.operation,
                  !.calls[searchId].pc = caught.pc,
                  !.calls[searchId].path = caught.path,
                  !.calls[searchId].value = caught.value]

(* executePerplexitySearch after `await searchWithPerplexity(query)`. *)
executePerplexitySearch(w, searchId, outcome) ==
    LET present == searchId \in DOMAIN w.activeSearches
        written ==
            IF ~present THEN w.activeSearches
            ELSE IF outcome = "throw"
            THEN [w.activeSearches EXCEPT
                    ![searchId].errors = Put(@, "perplexity", "thrown")]
            ELSE [w.activeSearches EXCEPT
                    ![searchId].results.perplexity = PerplexityResult(outcome)]
    IN  [w EXCEPT !.activeSearches = written,
                  !.calls[searchId].perplexity = outcome]

(* executeFirecrawlSearch after `await extractDataForQuery(query)`. *)
executeFirecrawlSearch(w, searchId, outcome) ==
    LET present == searchId \in DOMAIN w.activeSearches
        written ==
            IF ~present THEN w.activeSearches
            ELSE IF outcome = "throw"
            THEN [w.activeSearches EXCEPT
                    ![searchId].errors = Put(@, "firecrawl", "thrown")]
            ELSE [w.activeSearches EXCEPT
                    ![searchId].results.firecrawl = FirecrawlResult(outcome)]
    IN  [w EXCEPT !.activeSearches = written,
                  !.calls[searchId].firecrawl = outcome]

----------------------------------------------------------------------------
(* executeBatchSearch. *)

Min(a, b) == IF a < b THEN a ELSE b

(* options.maxConcurrent || this.config.maxConcurrentQueries *)
EffectiveMaxConcurrent(options, cfg) ==
    IF Has(options, "maxConcurrent") /\ options.maxConcurrent # 0
    THEN options.maxConcurrent
    ELSE cfg.maxConcurrentQueries

Chunk_oneTooMany(queries, i, maxConcurrent) ==
    SubSeq(queries, i + 1, Min(i + maxConcurrent + 1, Len(queries)))

(* queries.slice(i, i + maxConcurrent), i counted from 0 *)
Chunk(queries, i, maxConcurrent) ==
    SubSeq(queries, i + 1, Min(i + maxConcurrent, Len(queries)))

(* chunk.map(query => this.executeParallelSearch(query, options)...) *)
RECURSIVE BeginAll(_, _, _, _)
BeginAll(w, chunk, options, cfg) ==
    IF chunk = <<>> THEN w
    ELSE BeginAll(BeginSearch(w, Head(chunk), options, "batch", cfg),
                  Tail(chunk), options, cfg)

(* .catch(error => ({query, status: FAILED, error: error.message, results: null})) *)
ChunkEntry(call) ==
    IF call.pc = "resolved" THEN call.value
    ELSE [query |-> call.query,
          status |-> SearchStatus.FAILED,
          error |-> call.value.message,
          results |-> Null]

IsCompleted(r) == r.status = SearchStatus.COMPLETED

failedResults_statusFailed(results) ==
    SelectSeq(results, LAMBDA r : r.status = SearchStatus.FAILED)

successfulResults_notFailed(results) ==
    SelectSeq(results, LAMBDA r : r.status # SearchStatus.FAILED)

(* results.filter(r => r.status === SearchStatus.COMPLETED) *)
successfulResults(results) == SelectSeq(results, IsCompleted)

(* results.filter(r => r.status !== SearchStatus.COMPLETED) *)
failedResults(results) == SelectSeq(results, LAMBDA r : ~IsCompleted(r))

BatchValue(queries, results) ==
    [queries |-> queries,
     results |-> results,
     successful |-> successfulResults(results),
     failed |-> failedResults(results)]

IdleBatch ==
    [pc |-> "idle", queries |-> <<>>, options |-> EmptyObject, maxConcurrent |-> 0,
     i |-> 0, chunk |-> <<>>, results |-> <<>>, value |-> Null]

(* Start the window at batch.i: lines 222-232. *)
StartChunk(w, cfg) ==
    LET b == w.batch
        chunk == Chunk(b.queries, b.i, b.maxConcurrent)
        started == BeginAll(w, chunk, b.options, cfg)
    IN  [started EXCEPT
            !.batch.pc = "awaiting",
            !.batch.chunk = [k \in 1..Len(chunk) |-> w.nextId + k - 1]]

(* `await Promise.all(chunkPromises)` resumes once no search of the window *)
(* is pending: lines 234-256.                                              *)
ChunkSettled(w) ==
    /\ w.batch.pc = "awaiting"
    /\ \A k \in 1..Len(w.batch.chunk) : w.calls[w.batch.chunk[k]].pc # "racing"

AfterChunk_delayAfterLast(w) ==
    LET b == w.batch
        chunkResults == [k \in 1..Len(b.chunk) |-> ChunkEntry(w.calls[b.chunk[k]])]
        results == b.results \o chunkResults
    IN  IF ~ChunkSettled(w) THEN w
        ELSE IF b.i + b.maxConcurrent <= Len(b.queries)
        THEN [w EXCEPT !.batch.results = results, !.batch.pc = "delay"]
        ELSE [w EXCEPT !.batch.results = results,
                       !.batch.pc = "done",
                       !.batch.value = BatchValue(b.queries, results)]

AfterChunk(w) ==
    LET b == w.batch
        chunkResults == [k \in 1..Len(b.chunk) |-> ChunkEntry(w.calls[b.chunk[k]])]
        results == b.results \o chunkResults
    IN  IF ~ChunkSettled(w) THEN w
        ELSE IF b.i + b.maxConcurrent < Len(b.queries)
        THEN [w EXCEPT !.batch.results = results, !.batch.pc = "delay"]
        ELSE [w EXCEPT !.batch.results = results,
                       !.batch.pc = "done",
                       !.batch.value = BatchValue(b.queries, results)]

----------------------------------------------------------------------------
(* Actions. *)

NoCancel == [searchId |-> 0, returned |-> FALSE]

Now == World(activeSearches, calls, batch, nextId)

Becomes(w) ==
    \E after \in {w} :
        /\ activeSearches' = after.activeSearches
        /\ calls' = after.calls
        /\ batch' = after.batch
        /\ nextId' = after.nextId
        /\ lastCancel' = NoCancel
        /\ UNCHANGED <<config, dedupVars, hookVars, callVars, chatVars>>

(* The heap after the task that leaves w behind: a batch waiting on the    *)
(* searches of w goes on within the same task.                             *)
Settle(w) == \E settled \in {w} : Becomes(AfterChunk(settled))

(* A caller invokes executeParallelSearch(query, options). *)
executeParallelSearch(query, options) ==
    /\ batch.pc = "idle"
    /\ nextId <= MaxSearches
    /\ Becomes(BeginSearch(Now, query, options, "direct", config))

(* searchWithPerplexity settles for search `searchId`. *)
PerplexityCompletes(searchId, outcome) ==
    /\ searchId \in DOMAIN calls
    /\ calls[searchId].perplexity = "inflight"
    /\ Settle(RaceResolved(
                  executePerplexitySearch(Now, searchId, outcome), searchId))

(* extractDataForQuery settles for search `searchId`. *)
FirecrawlCompletes(searchId, outcome) ==
    /\ searchId \in DOMAIN calls
    /\ calls[searchId].firecrawl = "inflight"
    /\ Settle(RaceResolved(
                  executeFirecrawlSearch(Now, searchId, outcome), searchId))

(* The timer of line 101 fires while the race is undecided.  (When it      *)
(* fires later its reject() acts on a settled promise and has no effect.)  *)
SearchTimeout_afterAnAnswer(searchId) ==
    /\ searchId \in DOMAIN calls
    /\ calls[searchId].pc = "racing"
    /\ calls[searchId].perplexity # "inflight" \/ calls[searchId].firecrawl # "inflight"
    /\ Settle(RaceRejected(Now, searchId, config))

SearchTimeout(searchId) ==
    /\ searchId \in DOMAIN calls
    /\ calls[searchId].pc = "racing"
    /\ Settle(RaceRejected(Now, searchId, config))

CleanupTimer_afterSuccessOnly(searchId) ==
    /\ searchId \in DOMAIN calls
    /\ calls[searchId].pc # "racing"
    /\ calls[searchId].path = "try"
    /\ searchId \in DOMAIN activeSearches
    /\ activeSearches' = [k \in DOMAIN activeSearches \ {searchId} |-> activeSearches[k]]
    /\ lastCancel' = NoCancel
    /\ UNCHANGED <<config, calls, batch, nextId, dedupVars, hookVars, callVars, chatVars>>

(* The timer of lines 149-151, armed by `finally`, fires. *)
CleanupTimer(searchId) ==
    /\ searchId \in DOMAIN calls
    /\ calls[searchId].pc # "racing"
    /\ searchId \in DOMAIN activeSearches
    /\ activeSearches' = [k \in DOMAIN activeSearches \ {searchId} |-> activeSearches[k]]
    /\ lastCancel' = NoCancel
    /\ UNCHANGED <<config, calls, batch, nextId, dedupVars, hookVars, callVars, chatVars>>

cancelSearch_alwaysTrue(searchId) ==
    /\ activeSearches' =
          IF searchId \in DOMAIN activeSearches
          THEN [activeSearches EXCEPT ![searchId].status = SearchStatus.CANCELLED]
          ELSE activeSearches
    /\ lastCancel' = [searchId |-> searchId, returned |-> TRUE]
    /\ UNCHANGED <<config, calls, batch, nextId, dedupVars, hookVars, callVars, chatVars>>

cancelSearch(searchId) ==
    /\ IF searchId \in DOMAIN activeSearches
       THEN /\ activeSearches' =
                 [activeSearches EXCEPT ![searchId].status = SearchStatus.CANCELLED]
            /\ lastCancel' = [searchId |-> searchId, returned |-> TRUE]
       ELSE /\ activeSearches' = activeSearches
            /\ lastCancel' = [searchId |-> searchId, returned |-> FALSE]
    /\ UNCHANGED <<config, calls, batch, nextId, dedupVars, hookVars, callVars, chatVars>>

(* A caller invokes executeBatchSearch(queries, options). *)
executeBatchSearch(queries, options) ==
    /\ batch.pc = "idle"
    /\ calls = <<>>
    /\ LET b == [IdleBatch EXCEPT
                    !.queries = queries,
                    !.options = options,
                    !.maxConcurrent = EffectiveMaxConcurrent(options, config)]
           w == [Now EXCEPT !.batch = b]
       IN  IF queries = <<>>
           THEN Becomes([w EXCEPT !.batch.pc = "done",
                                  !.batch.value = BatchValue(queries, <<>>)])
           ELSE Settle(StartChunk(w, config))

(* The 2000 ms pause between windows elapsed: i += maxConcurrent and the   *)
(* next window starts.                                                     *)
BatchDelayElapsed ==
    /\ batch.pc = "delay"
    /\ Settle(StartChunk(
                  [Now EXCEPT !.batch.i = @ + batch.maxConcurrent], config))

----------------------------------------------------------------------------
(* Specifications. *)

(* orchestratorConfig, the configuration of the module's singleton. *)
orchestratorConfig ==
    [enablePerplexity |-> TRUE, enableFirecrawl |-> TRUE, fallbackEnabled |-> TRUE,
     maxConcurrentQueries |-> DefaultMaxConcurrentQueries]

(* new SearchOrchestrator(config): any of the flags may be overridden. *)
Configs ==
    [enablePerplexity : BOOLEAN, enableFirecrawl : BOOLEAN, fallbackEnabled : BOOLEAN,
     maxConcurrentQueries : {orchestratorConfig.maxConcurrentQueries}]

(* The configurations of the batch runs: the singleton's, with the fallback *)
(* switched either way.  The providers are switched per call, by options.  *)
BatchConfigs ==
    {[orchestratorConfig EXCEPT !.fallbackEnabled = f] : f \in BOOLEAN}

QueryLists == {SubSeq(QueryNames, 1, n) : n \in 0..MaxQueries}

DisableOptions ==
    UNION {[S -> {FALSE}] : S \in SUBSET {"enablePerplexity", "enableFirecrawl"}}

BatchOptions ==
    DisableOptions
    \cup {Put(o, "maxConcurrent", k) : o \in DisableOptions, k \in 1..MaxChunk}

DedupIdle ==
    /\ dedupInput = <<>>
    /\ dedupOnce = <<>>
    /\ dedupTwice = <<>>
    /\ dedupPhase = "idle"

(* No direct call of a pure method is under way. *)
NoCall == [op |-> "none"]

CallIdle ==
    /\ callInput = NoCall
    /\ callOutput = Null

(* No request is being handled. *)
NoRequest == [route |-> "none"]

FreshResponse ==
    [statusCode |-> 0, body |-> Null, sseHeaders |-> FALSE, events |-> <<>>,
     ended |-> FALSE, closed |-> FALSE, ends |-> 0, writtenAfterEnd |-> FALSE]

Undefined == [type |-> "undefined"]

NoSteps == [planning |-> Null, searching |-> Null, processing |-> Null]

NoWorkflow ==
    [pc |-> "idle", userQuery |-> Undefined, subQuestions |-> <<>>,
     searched |-> <<>>, mode |-> "none", steps |-> NoSteps, returned |-> Null]

NoStream ==
    [pc |-> "idle", plan |-> Null, currentIndex |-> 0, length |-> 0,
     chunkSize |-> 0, delay |-> 0, listening |-> FALSE, scheduled |-> 0,
     settled |-> FALSE]

NoServiceCalls == [planning |-> 0, search |-> 0, answering |-> 0]

(* useChat() on mount: useState([]), useState(false), useState(null), and  *)
(* no sendMessage call under way.                                          *)
HookMounted == [messages |-> <<>>, isLoading |-> FALSE, error |-> Null, sending |-> <<>>]

ChatIdle ==
    /\ request = NoRequest
    /\ response = FreshResponse
    /\ workflow = NoWorkflow
    /\ stream = NoStream
    /\ serviceCalls = NoServiceCalls
    /\ useChat = HookMounted

OrchestratorIdle ==
    /\ activeSearches = <<>>
    /\ calls = <<>>
    /\ batch = IdleBatch
    /\ nextId = 1
    /\ lastCancel = NoCancel

Init ==
    /\ config \in Configs
    /\ OrchestratorIdle
    /\ DedupIdle
    /\ CallIdle
    /\ ChatIdle

Next ==
    \/ \E q \in Queries, o \in EnableOptions : executeParallelSearch(q, o)
    \/ \E id \in SearchIds, outcome \in PerplexityOutcomes : PerplexityCompletes(id, outcome)
    \/ \E id \in SearchIds, outcome \in FirecrawlOutcomes : FirecrawlCompletes(id, outcome)
    \/ \E id \in SearchIds : SearchTimeout(id)
    \/ \E id \in SearchIds : CleanupTimer(id)
    \/ \E id \in SearchIds : cancelSearch(id)

Spec == Init /\ [][Next]_vars

BatchIds == 1..MaxQueries

NextBatch ==
    \/ \E qs \in QueryLists, o \in BatchOptions : executeBatchSearch(qs, o)
    \/ BatchDelayElapsed
    \/ \E id \in BatchIds, outcome \in PerplexityOutcomes : PerplexityCompletes(id, outcome)
    \/ \E id \in BatchIds, outcome \in FirecrawlOutcomes : FirecrawlCompletes(id, outcome)
    \/ \E id \in BatchIds : SearchTimeout(id)
    \/ \E id \in BatchIds : CleanupTimer(id)

InitBatch ==
    /\ config \in BatchConfigs
    /\ OrchestratorIdle
    /\ DedupIdle
    /\ CallIdle
    /\ ChatIdle

SpecBatch == InitBatch /\ [][NextBatch]_vars

(* A timer that is armed fires: the timer of the race or the clean-up      *)
(* timer of some search.                                                   *)
TimerFires == \E id \in SearchIds : SearchTimeout(id) \/ CleanupTimer(id)

(* Spec with its timers running: while a timer is armed, some armed timer  *)
(* fires in the end.  Nothing is assumed of the providers, which may never *)
(* answer, nor of the callers.                                             *)
SpecTimers == Spec /\ WF_vars(TimerFires)

(* The timers of a batch: the race timers of its searches and the pause    *)
(* between two windows.                                                    *)
BatchTimerFires == BatchDelayElapsed \/ \E id \in BatchIds : SearchTimeout(id)

(* SpecBatch with its timers running. *)
SpecBatchTimers == SpecBatch /\ WF_vars(BatchTimerFires)

----------------------------------------------------------------------------
(* Vocabulary of the properties. *)

AllIds == SearchIds \cup BatchIds

Settled(id) == id \in DOMAIN calls /\ calls[id].pc # "racing"

(* The step in which the promise of executeParallelSearch call `id` settles. *)
JustSettled(id) ==
    /\ id \in DOMAIN calls'
    /\ calls'[id].pc # "racing"
    /\ id \notin DOMAIN calls \/ calls[id].pc = "racing"

Range(seq) == {seq[i] : i \in 1..Len(seq)}

(* The providers a returned record reports in `sources`: an object of two  *)
(* booleans on the completed path, a list of names on the fallback path.   *)
Reported(value, provider) ==
    IF value.status = SearchStatus.COMPLETED
    THEN value.sources[provider]
    ELSE provider \in Range(value.sources)

TerminalStatuses ==
    {SearchStatus.COMPLETED, SearchStatus.FAILED, SearchStatus.TIMEOUT,
     SearchStatus.CANCELLED}

InFlightProviderCalls ==
    {c \in (DOMAIN calls) \X Providers : calls[c[1]][c[2]] = "inflight"}

PendingSearches == {id \in DOMAIN calls : calls[id].pc = "racing"}

----------------------------------------------------------------------------
(* C1: when one enabled provider fails and the other succeeds before the   *)
(* timeout, the call resolves with status completed, the result holds the  *)
(* succeeding provider's entries, and the failure is recorded in the       *)
(* operation's per-provider error slot.                                    *)
C1_ProviderFailureRecorded ==
    \A id \in DOMAIN calls \cap DOMAIN activeSearches :
        LET call == calls[id]
            operation == activeSearches[id]
            perplexityFailed == call.perplexity = "error" /\ call.firecrawl = "ok"
            firecrawlFailed == call.firecrawl = "throw" /\ call.perplexity = "ok"
        IN  (call.path = "try" /\ (perplexityFailed \/ firecrawlFailed)) =>
            /\ call.pc = "resolved"
            /\ call.value.status = SearchStatus.COMPLETED
            /\ \E i \in 1..Len(call.value.results.allResults) :
                  call.value.results.allResults[i].source =
                      (IF perplexityFailed THEN "firecrawl" ELSE "perplexity")
            /\ perplexityFailed => Has(operation.errors, "perplexity")
            /\ firecrawlFailed => Has(operation.errors, "firecrawl")

(* C2: on the failure path a partial_success record is returned iff        *)
(* fallback is enabled and a provider had stored usable data when the      *)
(* failure was raised; otherwise the original error is rethrown.           *)
C2_FallbackIffUsableData ==
    [][\A id \in AllIds :
          (JustSettled(id) /\ calls'[id].path = "catch") =>
              LET call == calls'[id]
                  usable == call.perplexity = "ok" \/ call.firecrawl = "ok"
                  original == IF call.perplexity = "off" /\ call.firecrawl = "off"
                              THEN NoProvidersMessage ELSE TimeoutMessage
              IN  IF config.fallbackEnabled /\ usable
                  THEN /\ call.pc = "resolved"
                       /\ call.value.status = "partial_success"
                  ELSE /\ call.pc = "rejected"
                       /\ call.value = [message |-> original]]_vars

C2_Witness ==
    \E id \in DOMAIN calls :
        /\ calls[id].path = "catch"
        /\ calls[id].pc = "resolved"
        /\ calls[id].value.status = "partial_success"
        /\ calls[id].perplexity = "error"

(* C3: a call whose enable flags both resolve to false (options overriding *)
(* configuration) rejects with 'No search providers enabled', invokes no   *)
(* provider, and never turns into a completed or partial_success result.   *)
C3_NoProvidersRejects ==
    [][/\ \A q \in Queries, o \in EnableOptions :
            LET perplexityOff == IF Has(o, "enablePerplexity") THEN ~o.enablePerplexity
                                 ELSE ~config.enablePerplexity
                firecrawlOff == IF Has(o, "enableFirecrawl") THEN ~o.enableFirecrawl
                                ELSE ~config.enableFirecrawl
            IN  (executeParallelSearch(q, o) /\ perplexityOff /\ firecrawlOff) =>
                    /\ calls'[nextId].pc = "rejected"
                    /\ calls'[nextId].value = [message |-> NoProvidersMessage]
                    /\ calls'[nextId].perplexity = "off"
                    /\ calls'[nextId].firecrawl = "off"
       /\ \A id \in DOMAIN calls :
            (calls[id].perplexity = "off" /\ calls[id].firecrawl = "off") =>
                calls'[id] = calls[id]]_vars

C3_Witness ==
    \E id \in DOMAIN calls :
        /\ config.enablePerplexity /\ config.enableFirecrawl
        /\ calls[id].perplexity = "off" /\ calls[id].firecrawl = "off"
        /\ calls[id].pc = "rejected"
        /\ id \notin DOMAIN activeSearches

(* C4: whenever executeParallelSearch returns a result, its `sources`      *)
(* reports Perplexity iff Perplexity returned a result without an error    *)
(* field, and Firecrawl iff it returned at least one successful extraction. *)
C4_SourcesAreUsableProviders ==
    [][\A id \in AllIds :
          (JustSettled(id) /\ calls'[id].pc = "resolved") =>
              /\ Reported(calls'[id].value, "perplexity") <=> calls'[id].perplexity = "ok"
              /\ Reported(calls'[id].value, "firecrawl") <=> calls'[id].firecrawl = "ok"]_vars

C6_AtMostKProviderCalls ==
    batch.pc \in {"awaiting", "delay"} =>
        Cardinality(InFlightProviderCalls) <= batch.maxConcurrent

(* C6 amended: during executeBatchSearch with chunk size k no more than k  *)
(* executeParallelSearch calls are pending.                                *)
C6_AtMostKSearches ==
    batch.pc # "idle" => Cardinality(PendingSearches) <= batch.maxConcurrent

C6_Witness ==
    /\ batch.pc = "awaiting"
    /\ batch.maxConcurrent = 2
    /\ Cardinality(PendingSearches) = 2
    /\ Cardinality(InFlightProviderCalls) = 4

(* C7: once an operation's status is completed, failed, timeout or         *)
(* cancelled it never changes while the operation is in the active-search  *)
(* map.                                                                    *)
C7_TerminalStatusFinal ==
    [][\A id \in DOMAIN activeSearches \cap DOMAIN activeSearches' :
          activeSearches[id].status \in TerminalStatuses =>
              activeSearches'[id].status = activeSearches[id].status]_vars

----------------------------------------------------------------------------
(* ResultsProcessor: text normalisation, similarity and de-duplication.    *)
(*                                                                         *)
(* A text is the sequence of its whitespace-separated words and a word is  *)
(* a sequence of characters.  A normalised string is the sequence of its   *)
(* words too: it is lower-case, free of punctuation, single-spaced and     *)
(* trimmed, so two of them are equal as strings iff their word sequences   *)
(* are equal, and empty iff there is no word.                              *)

MaxRecords == 3            \* longest list handed to deduplicateResults

ContentKeyLength == 100    \* result.content.substring(0, 100)

UpperCase ==
    {"A", "B", "C", "D", "E", "F", "G", "H", "I", "J", "K", "L", "M", "N",
     "O", "P", "Q", "R", "S", "T", "U", "V", "W", "X", "Y", "Z"}

Punctuation == {".", "!", "{", "}", "&"}

LowerCaseOf ==
    [A |-> "a", B |-> "b", C |-> "c", D |-> "d", E |-> "e", F |-> "f",
     G |-> "g", H |-> "h", I |-> "i", J |-> "j", K |-> "k", L |-> "l",
     M |-> "m", N |-> "n", O |-> "o", P |-> "p", Q |-> "q", R |-> "r",
     S |-> "s", T |-> "t", U |-> "u", V |-> "v", W |-> "w", X |-> "x",
     Y |-> "y", Z |-> "z"]

toLowerCase(c) == IF c \in UpperCase THEN LowerCaseOf[c] ELSE c

(* One word through toLowerCase() and replace(/[^\w\s]/g, '') *)
NormalizeWord(word) ==
    LET lowered == [i \in 1..Len(word) |-> toLowerCase(word[i])]
    IN  SelectSeq(lowered, LAMBDA c : c \notin Punctuation)

(* normalizeText: a word emptied by the punctuation filter leaves a run of *)
(* whitespace, which replace(/\s+/g, ' ') and trim() remove.               *)
normalizeText(text) ==
    SelectSeq([i \in 1..Len(text) |-> NormalizeWord(text[i])], LAMBDA w : w # <<>>)

(* text.substring(0, n) of the single-spaced text *)
RECURSIVE Substring(_, _)
Substring(text, n) ==
    IF text = <<>> \/ n <= 0 THEN <<>>
    ELSE IF Len(Head(text)) >= n THEN <<SubSeq(Head(text), 1, n)>>
    ELSE <<Head(text)>> \o Substring(Tail(text), n - Len(Head(text)) - 1)

(* The ratio intersection.length / union.length, kept as a fraction.       *)
(* words1.filter(...) keeps repeated words, the union is a set.            *)
calculateSimilarity(str1, str2) ==
    IF str1 = str2 THEN [num |-> 1, den |-> 1]
    ELSE IF str1 = <<>> \/ str2 = <<>> THEN [num |-> 0, den |-> 1]
    ELSE [num |-> Len(SelectSeq(str1, LAMBDA w : w \in Range(str2))),
          den |-> Cardinality(Range(str1) \cup Range(str2))]

(* this.dedupThreshold = 0.8 *)
dedupThreshold == [num |-> 4, den |-> 5]

Exceeds(ratio, threshold) == ratio.num * threshold.den > threshold.num * ratio.den

(* The test of line 197 for `result` against the accepted `existing`. *)
IsDuplicateOf(result, existing) ==
    LET titleKey == normalizeText(result.title)
        contentKey == normalizeText(Substring(result.content, ContentKeyLength))
        existingTitleKey == normalizeText(existing.title)
        existingContentKey == normalizeText(Substring(existing.content, ContentKeyLength))
    IN  \/ Exceeds(calculateSimilarity(titleKey, existingTitleKey), dedupThreshold)
        \/ Exceeds(calculateSimilarity(contentKey, existingContentKey), dedupThreshold)

DedupOne_keepsLower(deduped, result) ==
    LET hits == {k \in 1..Len(deduped) : IsDuplicateOf(result, deduped[k])}
        first == CHOOSE k \in hits : \A other \in hits : k <= other
    IN  IF hits = {} THEN Append(deduped, result)
        ELSE IF result.relevanceScore < deduped[first].relevanceScore
        THEN [deduped EXCEPT ![first] = result]
        ELSE deduped

(* One pass of the outer loop: lines 183-213. *)
DedupOne(deduped, result) ==
    LET hits == {k \in 1..Len(deduped) : IsDuplicateOf(result, deduped[k])}
        first == CHOOSE k \in hits : \A other \in hits : k <= other
    IN  IF hits = {} THEN Append(deduped, result)
        ELSE IF result.relevanceScore > deduped[first].relevanceScore
        THEN [deduped EXCEPT ![first] = result]
        ELSE deduped

RECURSIVE DedupFrom(_, _)
DedupFrom(deduped, results) ==
    IF results = <<>> THEN deduped
    ELSE DedupFrom(DedupOne(deduped, Head(results)), Tail(results))

deduplicateResults(results) == DedupFrom(<<>>, results)

----------------------------------------------------------------------------
(* The lists de-duplication is tried on: normalized records, the i-th      *)
(* carrying the id normalizeResults gives it.                              *)

TitleTexts ==
    {<< <<"A">>, <<"b">> >>,                        \* "A b"
     << <<"a">>, <<"b", ".">> >>,                   \* "a b."
     << <<"c">>, <<"e">> >>,                        \* "c e"
     << <<"c">>, <<"c">>, <<"c">>, <<"d">> >>}      \* "c c c d"

ContentTexts ==
    {<< <<"X">> >>,                                 \* "X"
     << <<"y", "!">> >>}                            \* "y!"

RelevanceScores == {45, 85}

RecordFields == [title : TitleTexts, content : ContentTexts, relevanceScore : RelevanceScores]

(* A list of records as normalizeResults hands them over, each with its id. *)
RecordList(fields) ==
    [i \in 1..Len(fields) |->
        [id |-> i, title |-> fields[i].title, content |-> fields[i].content,
         relevanceScore |-> fields[i].relevanceScore]]

InitDedup ==
    /\ config = orchestratorConfig
    /\ OrchestratorIdle
    /\ \E n \in 0..MaxRecords :
          \E fields \in [1..n -> RecordFields] : dedupInput = RecordList(fields)
    /\ dedupOnce = <<>>
    /\ dedupTwice = <<>>
    /\ dedupPhase = "input"
    /\ CallIdle
    /\ ChatIdle

(* deduplicateResults(normalizedResults) *)
Deduplicate ==
    /\ dedupPhase = "input"
    /\ dedupOnce' = deduplicateResults(dedupInput)
    /\ dedupPhase' = "once"
    /\ UNCHANGED <<dedupInput, dedupTwice, orchVars, callVars, chatVars, hookVars>>

(* deduplicateResults applied to its own output *)
DeduplicateAgain ==
    /\ dedupPhase = "once"
    /\ dedupTwice' = deduplicateResults(dedupOnce)
    /\ dedupPhase' = "twice"
    /\ UNCHANGED <<dedupInput, dedupOnce, orchVars, callVars, chatVars, hookVars>>

NextDedup == Deduplicate \/ DeduplicateAgain

SpecDedup == InitDedup /\ [][NextDedup]_vars

----------------------------------------------------------------------------
(* C9: deduplicateResults is idempotent.                                   *)
C9_DedupIdempotent ==
    dedupPhase = "twice" => dedupTwice = dedupOnce

Kept(record, list) == \E k \in 1..Len(list) : list[k].id = record.id

(* The title similarity line 194 computes when `later` is compared with    *)
(* the accepted `earlier` exceeds the threshold.                           *)
TitlesSimilar(later, earlier) ==
    Exceeds(calculateSimilarity(normalizeText(later.title), normalizeText(earlier.title)),
            dedupThreshold)

(* C10 as stated: of two input records whose normalized titles are more    *)
(* than 0.8 similar, the output keeps exactly one, and the one kept has a  *)
(* relevance score at least the other's.                                   *)
C10_SimilarTitlesKeepBest ==
    dedupPhase # "input" =>
        \A i, j \in 1..Len(dedupInput) :
            (i < j /\ TitlesSimilar(dedupInput[j], dedupInput[i])) =>
                LET a == dedupInput[i]
                    b == dedupInput[j]
                IN  /\ Kept(a, dedupOnce) # Kept(b, dedupOnce)
                    /\ Kept(a, dedupOnce) => a.relevanceScore >= b.relevanceScore
                    /\ Kept(b, dedupOnce) => b.relevanceScore >= a.relevanceScore

Related(r1, r2) == IsDuplicateOf(r1, r2) \/ IsDuplicateOf(r2, r1)

(* The two records at i < j are title-similar and no other record of the   *)
(* list is a duplicate, by title or by content, of either.                 *)
IsolatedSimilarPair(list, i, j) ==
    /\ i < j
    /\ TitlesSimilar(list[j], list[i])
    /\ \A k \in 1..Len(list) \ {i, j} :
          ~Related(list[k], list[i]) /\ ~Related(list[k], list[j])

(* C10 amended: the same, for two records that no other record of the list *)
(* duplicates by title or by content; on a tie the earlier one is kept.    *)
C10_IsolatedPairKeepsBest ==
    dedupPhase # "input" =>
        \A i, j \in 1..Len(dedupInput) :
            IsolatedSimilarPair(dedupInput, i, j) =>
                LET a == dedupInput[i]
                    b == dedupInput[j]
                IN  /\ Kept(a, dedupOnce) # Kept(b, dedupOnce)
                    /\ Kept(b, dedupOnce) <=> b.relevanceScore > a.relevanceScore

C10_Witness ==
    /\ dedupPhase = "once"
    /\ Len(dedupInput) = 3
    /\ IsolatedSimilarPair(dedupInput, 1, 3)
    /\ dedupInput[1].title # dedupInput[3].title
    /\ dedupInput[3].relevanceScore > dedupInput[1].relevanceScore
    /\ Kept(dedupInput[3], dedupOnce)
    /\ Len(dedupOnce) = 2

----------------------------------------------------------------------------
(* ResultsProcessor.scoreResults.                                          *)
(*                                                                         *)
(* A string is the sequence of its words, each a sequence of characters,   *)
(* joined by single spaces; its length counts the characters and spaces.   *)

MaxScored == 2        \* longest list handed to scoreResults

RelevanceWeight == 4      \* qualityWeights.relevance = 0.4, in tenths
ConfidenceWeight == 3     \* qualityWeights.confidence = 0.3, in tenths
FreshnessWeight == 2      \* qualityWeights.freshness = 0.2, in tenths
CompletenessWeight == 1   \* qualityWeights.completeness = 0.1, in tenths

MinContentLength == 50    \* result.content.length > 50
MinSummaryLength == 20    \* result.summary.length > 20
MinSourceDataKeys == 3    \* Object.keys(result.sourceData).length > 3
HoursPerDay == 24         \* ageInHours < 24
HoursPerWeek == 168       \* ageInHours < 168

(* The four weights, in tenths, add up to 1. *)
WeightScale == RelevanceWeight + ConfidenceWeight + FreshnessWeight + CompletenessWeight

RECURSIVE StringLength(_)
StringLength(text) ==
    IF text = <<>> THEN 0
    ELSE IF Len(text) = 1 THEN Len(Head(text))
    ELSE Len(Head(text)) + 1 + StringLength(Tail(text))

Untitled == << <<"U", "n", "t", "i", "t", "l", "e", "d">> >>

(* new Date(result.timestamp): an unparsable timestamp gives an invalid    *)
(* date, whose age is NaN and compares false with every threshold.         *)
InvalidDate == [valid |-> FALSE]

DateAged(hours) == [valid |-> TRUE, ageInHours |-> hours]

calculateFreshnessScore(result) ==
    LET t == result.timestamp
    IN  IF ~t.valid THEN 50
        ELSE IF t.ageInHours < 1 THEN 100
        ELSE IF t.ageInHours < HoursPerDay THEN 90
        ELSE IF t.ageInHours < HoursPerWeek THEN 70
        ELSE 50

(* factors.filter(Boolean).length: a factor counts when it is truthy. *)
CompleteFactors(result) ==
    {f \in {"title", "content", "sourceUrl", "summary", "sourceData"} :
        CASE f = "title" -> result.title # <<>> /\ result.title # Untitled
          [] f = "content" ->
                result.content # <<>> /\ StringLength(result.content) > MinContentLength
          [] f = "sourceUrl" -> result.sourceUrl # Null
          [] f = "summary" ->
                result.summary # <<>> /\ StringLength(result.summary) > MinSummaryLength
          [] f = "sourceData" ->
                result.sourceData # Null
                /\ Cardinality(DOMAIN result.sourceData) > MinSourceDataKeys}

(* (completeFactor / factors.length) * 100 *)
calculateCompletenessScore(result) == (Cardinality(CompleteFactors(result)) * 100) \div 5

ConfidenceScore(result) ==
    IF result.confidence = "high" THEN 100
    ELSE IF result.confidence = "medium" THEN 75
    ELSE 50

QualityScore_unrounded(result) ==
    RelevanceWeight * result.relevanceScore
    + ConfidenceWeight * ConfidenceScore(result)
    + FreshnessWeight * calculateFreshnessScore(result)
    + CompletenessWeight * calculateCompletenessScore(result)

(* Math.round of the weighted sum; with integer scores the double          *)
(* arithmetic of the source gives the exact sum rounded half up.           *)
QualityScore(result) ==
    (RelevanceWeight * result.relevanceScore
     + ConfidenceWeight * ConfidenceScore(result)
     + FreshnessWeight * calculateFreshnessScore(result)
     + CompletenessWeight * calculateCompletenessScore(result)
     + WeightScale \div 2) \div WeightScale

(* The record the map callback returns: {...result, qualityScore, ...} *)
Scored(result) ==
    Put(Put(Put(result, "qualityScore", QualityScore(result)),
            "freshnessScore", calculateFreshnessScore(result)),
        "completenessScore", calculateCompletenessScore(result))

(* Array.prototype.sort((a, b) => b.qualityScore - a.qualityScore): stable, *)
(* descending.                                                             *)
RECURSIVE InsertByQuality(_, _)
InsertByQuality(sorted, r) ==
    IF sorted = <<>> THEN <<r>>
    ELSE IF Head(sorted).qualityScore >= r.qualityScore
    THEN <<Head(sorted)>> \o InsertByQuality(Tail(sorted), r)
    ELSE <<r>> \o sorted

RECURSIVE SortByQuality(_, _)
SortByQuality(sorted, rest) ==
    IF rest = <<>> THEN sorted
    ELSE SortByQuality(InsertByQuality(sorted, Head(rest)), Tail(rest))

scoreResults(results) ==
    SortByQuality(<<>>, [i \in 1..Len(results) |-> Scored(results[i])])

(* What a call hands back: a returned value or a thrown error. *)
Returned(value) == [threw |-> FALSE, value |-> value]

Threw(message) == [threw |-> TRUE, message |-> message]

(* Well-formed normalized records, as far as scoreResults reads them. *)
LongContent == [i \in 1..26 |-> <<"a", "b">>]          \* 77 characters

LongSummary == [i \in 1..11 |-> <<"a">>]               \* 21 characters

ScoreTitles == {<<>>, Untitled, << <<"a">>, <<"b", ".">> >>}

ScoreContents == {<<>>, << <<"X">> >>, LongContent}

ScoreSummaries == {<<>>, LongSummary}

ScoreUrls == {Null, [href |-> "https://example.com"]}

ScoreSourceData ==
    {Null,
     [source |-> "perplexity"],
     [source |-> "firecrawl", title |-> "t", url |-> "u", content |-> "c"]}

ScoreRelevances == {0, 45, 100}

ScoreConfidences == {"high", "medium", "low", "failed"}

ScoreTimestamps ==
    {InvalidDate} \cup {DateAged(h) : h \in {-1, 0, 1, 23, 24, 167, 168}}

ScoreRecords ==
    [title : ScoreTitles, content : ScoreContents, summary : ScoreSummaries,
     sourceUrl : ScoreUrls, sourceData : ScoreSourceData,
     relevanceScore : ScoreRelevances, confidence : ScoreConfidences,
     timestamp : ScoreTimestamps, qualityScore : {0}]

(* The default record of normalizeResults with every field empty, and      *)
(* records at the ends of the score range, for the lists of several.       *)
RankedRecords ==
    {r \in ScoreRecords :
        /\ r.title = <<>> /\ r.summary = <<>> /\ r.sourceUrl = Null /\ r.sourceData = Null
        /\ r.content = <<>> /\ r.timestamp \in {InvalidDate, DateAged(0)}
        /\ r.confidence \in {"high", "failed"}
        /\ r.relevanceScore \in {0, 100}}

ScoreInputs ==
    {<<>>} \cup {<<r>> : r \in ScoreRecords}
    \cup UNION {[1..n -> RankedRecords] : n \in 2..MaxScored}

ScoreResults ==
    /\ callInput.op = "scoreResults"
    /\ callOutput = Null
    /\ callOutput' = Returned(scoreResults(callInput.results))
    /\ UNCHANGED <<callInput, orchVars, dedupVars, hookVars, chatVars>>

----------------------------------------------------------------------------
(* ResultsProcessor.determineCategory.                                     *)

(* The characters of a string: its words joined by single spaces. *)
RECURSIVE Characters(_)
Characters(text) ==
    IF text = <<>> THEN <<>>
    ELSE IF Len(text) = 1 THEN Head(text)
    ELSE Head(text) \o <<" ">> \o Characters(Tail(text))

LowerCased(characters) == [i \in 1..Len(characters) |-> toLowerCase(characters[i])]

(* text.match(/a|b|c/): some alternative occurs somewhere in the text. *)
Occurs(keyword, characters) ==
    \E i \in 1..(Len(characters) - Len(keyword) + 1) :
        SubSeq(characters, i, i + Len(keyword) - 1) = keyword

Matches(characters, alternatives) == \E k \in alternatives : Occurs(k, characters)

(* /interest rate|fed rate|federal reserve|monetary policy/ *)
InterestRateWords ==
    {<<"i", "n", "t", "e", "r", "e", "s", "t", " ", "r", "a", "t", "e">>,
     <<"f", "e", "d", " ", "r", "a", "t", "e">>,
     <<"f", "e", "d", "e", "r", "a", "l", " ", "r", "e", "s", "e", "r", "v", "e">>,
     <<"m", "o", "n", "e", "t", "a", "r", "y", " ", "p", "o", "l", "i", "c", "y">>}

(* /inflation|cpi|consumer price|price index/ *)
InflationWords ==
    {<<"i", "n", "f", "l", "a", "t", "i", "o", "n">>,
     <<"c", "p", "i">>,
     <<"c", "o", "n", "s", "u", "m", "e", "r", " ", "p", "r", "i", "c", "e">>,
     <<"p", "r", "i", "c", "e", " ", "i", "n", "d", "e", "x">>}

(* /stock|equity|market|dow|nasdaq|s&p/ *)
StockMarketWords ==
    {<<"s", "t", "o", "c", "k">>,
     <<"e", "q", "u", "i", "t", "y">>,
     <<"m", "a", "r", "k", "e", "t">>,
     <<"d", "o", "w">>,
     <<"n", "a", "s", "d", "a", "q">>,
     <<"s", "&", "p">>}

(* /gdp|economic growth|recession|economy/ *)
EconomicIndicatorWords ==
    {<<"g", "d", "p">>,
     <<"e", "c", "o", "n", "o", "m", "i", "c", " ", "g", "r", "o", "w", "t", "h">>,
     <<"r", "e", "c", "e", "s", "s", "i", "o", "n">>,
     <<"e", "c", "o", "n", "o", "m", "y">>}

(* /employment|unemployment|jobs|labor/ *)
EmploymentWords ==
    {<<"e", "m", "p", "l", "o", "y", "m", "e", "n", "t">>,
     <<"u", "n", "e", "m", "p", "l", "o", "y", "m", "e", "n", "t">>,
     <<"j", "o", "b", "s">>,
     <<"l", "a", "b", "o", "r">>}

(* /currency|forex|exchange rate|dollar/ *)
CurrencyWords ==
    {<<"c", "u", "r", "r", "e", "n", "c", "y">>,
     <<"f", "o", "r", "e", "x">>,
     <<"e", "x", "c", "h", "a", "n", "g", "e", " ", "r", "a", "t", "e">>,
     <<"d", "o", "l", "l", "a", "r">>}

(* The keyword groups in the order determineCategory tries them. *)
CategoryOrder ==
    <<"interest_rates", "inflation", "stock_market", "economic_indicators",
      "employment", "currency">>

CategoryWords ==
    [interest_rates |-> InterestRateWords, inflation |-> InflationWords,
     stock_market |-> StockMarketWords, economic_indicators |-> EconomicIndicatorWords,
     employment |-> EmploymentWords, currency |-> CurrencyWords]

GeneralFinancial == "general_financial"

Uncategorized == "uncategorized"

(* content.toLowerCase() + ' ' + title.toLowerCase() *)
CategoryText(result) ==
    LowerCased(Characters(result.content)) \o <<" ">> \o LowerCased(Characters(result.title))

determineCategory_stockBeforeInflation(result) ==
    LET text == CategoryText(result)
    IN  IF Matches(text, InterestRateWords) THEN "interest_rates"
        ELSE IF Matches(text, StockMarketWords) THEN "stock_market"
        ELSE IF Matches(text, InflationWords) THEN "inflation"
        ELSE IF Matches(text, EconomicIndicatorWords) THEN "economic_indicators"
        ELSE IF Matches(text, EmploymentWords) THEN "employment"
        ELSE IF Matches(text, CurrencyWords) THEN "currency"
        ELSE GeneralFinancial

determineCategory(result) ==
    LET text == CategoryText(result)
    IN  IF Matches(text, InterestRateWords) THEN "interest_rates"
        ELSE IF Matches(text, InflationWords) THEN "inflation"
        ELSE IF Matches(text, StockMarketWords) THEN "stock_market"
        ELSE IF Matches(text, EconomicIndicatorWords) THEN "economic_indicators"
        ELSE IF Matches(text, EmploymentWords) THEN "employment"
        ELSE IF Matches(text, CurrencyWords) THEN "currency"
        ELSE GeneralFinancial

CategoryContents ==
    {<<>>,
     << <<"F", "e", "d", "e", "r", "a", "l">>, <<"R", "e", "s", "e", "r", "v", "e">> >>,
     << <<"i", "n", "t", "e", "r", "e", "s", "t">> >>,
     << <<"C", "P", "I">>, <<"u", "p">> >>,
     << <<"w", "i", "n", "d", "o", "w">> >>,
     << <<"G", "D", "P">> >>,
     << <<"j", "o", "b", "s">> >>,
     << <<"D", "o", "l", "l", "a", "r">> >>,
     << <<"n", "e", "w", "s">> >>}

CategoryTitles ==
    {<<>>,
     << <<"r", "a", "t", "e">> >>,
     << <<"I", "n", "f", "l", "a", "t", "i", "o", "n">>, <<"a", "n", "d">>, <<"s", "t", "o", "c", "k">> >>,
     << <<"e", "c", "o", "n", "o", "m", "y">>, <<"j", "o", "b", "s">> >>,
     << <<"S", "&", "P">> >>}

CategoryInputs == [content : CategoryContents, title : CategoryTitles]

DetermineCategory ==
    /\ callInput.op = "determineCategory"
    /\ callOutput = Null
    /\ callOutput' = Returned(determineCategory(callInput.result))
    /\ UNCHANGED <<callInput, orchVars, dedupVars, hookVars, chatVars>>

----------------------------------------------------------------------------
(* combineSearchResults called on a search operation of any content.       *)

MaxEntries == 2       \* most Firecrawl extractions in one search operation

(* calculateRelevanceScore gives any whole percentage, 0 when no word of   *)
(* the query occurs in the page; an extraction may also carry no score.    *)
EntryScores == {0, 1, 50, 80, 95, 100}

Extractions ==
    {[success |-> TRUE, data |-> [relevanceScore |-> score]] : score \in EntryScores}
    \cup {[success |-> TRUE, data |-> [title |-> "t"]]}

CombinePerplexity ==
    {Null, PerplexityResult("ok"), PerplexityResult("error"),
     [source |-> "perplexity", content |-> "text", confidence |-> "medium"]}

CombineFirecrawl ==
    {Null}
    \cup {[source |-> "firecrawl", successful |-> list] :
            list \in UNION {[1..n -> Extractions] : n \in 0..MaxEntries}}

CombineInputs ==
    {[query |-> QueryNames[1],
      results |-> [perplexity |-> perplexity, firecrawl |-> firecrawl, combined |-> Null]] :
        perplexity \in CombinePerplexity, firecrawl \in CombineFirecrawl}

CombineSearchResults ==
    /\ callInput.op = "combineSearchResults"
    /\ callOutput = Null
    /\ callOutput' = Returned(combineSearchResults(callInput.searchOperation))
    /\ UNCHANGED <<callInput, orchVars, dedupVars, hookVars, chatVars>>

----------------------------------------------------------------------------
(* ResultsProcessor.processSearchResults: the stages and the catch.        *)

MaxRaw == 2           \* longest allResults list handed to processSearchResults

SummaryLength == 200  \* content.substring(0, 200) + '...'

(* A property value that is a string, and one that is not.  A number is    *)
(* truthy like a non-empty string but has none of the string methods.      *)
Str(text) == [type |-> "string", text |-> text]

Num(n) == [type |-> "number", value |-> n]

IsString(v) == v.type = "string"

Truthy(v) == IF IsString(v) THEN v.text # <<>> ELSE v.value # 0

(* An array, and a truthy value that is not one: it has no forEach. *)
Arr(items) == [type |-> "array", items |-> items]

NotAnArray == [type |-> "object"]

PERPLEXITY == <<"p", "e", "r", "p", "l", "e", "x", "i", "t", "y">>

FIRECRAWL == <<"f", "i", "r", "e", "c", "r", "a", "w", "l">>

UNDEFINED == <<"u", "n", "d", "e", "f", "i", "n", "e", "d">>

RESULT == <<"R", "e", "s", "u", "l", "t">>

SourceWords ==
    [perplexity |-> PERPLEXITY, firecrawl |-> FIRECRAWL, undefined |-> UNDEFINED]

(* Then(attempt, F): the next statement runs unless the last one threw. *)
Then(attempt, F(_)) == IF attempt.threw THEN attempt ELSE F(attempt.value)

(* extractRawResults(searchResults) *)
extractRawResults(searchResults) ==
    IF searchResults = Null
    THEN Threw("Cannot read properties of null (reading 'results')")
    ELSE IF ~Has(searchResults, "results") \/ searchResults.results = Null
            \/ searchResults.results.allResults = Null
    THEN Returned(<<>>)
    ELSE IF searchResults.results.allResults = NotAnArray
    THEN Threw("searchResults.results.allResults.forEach is not a function")
    ELSE Returned([i \in 1..Len(searchResults.results.allResults.items) |->
            Put(Put(searchResults.results.allResults.items[i],
                    "originalSearchId", searchResults.searchId),
                "originalQuery", searchResults.query)])

(* result.title || ... || `${result.source} Result` *)
extractTitle(result) ==
    IF Has(result, "title") /\ Truthy(result.title) THEN result.title
    ELSE Str(<<SourceWords[IF Has(result, "source") THEN result.source ELSE "undefined"],
               RESULT>>)

(* result.content || ... || JSON.stringify(result.extractedData || {}) *)
extractContent(result) ==
    IF Has(result, "content") /\ Truthy(result.content) THEN result.content
    ELSE Str(<< <<"{", "}">> >>)

(* content.substring(0, 200) + '...' *)
Ellipsis(text) ==
    IF text = <<>> THEN << <<".", ".", ".">> >>
    ELSE [text EXCEPT ![Len(text)] = @ \o <<".", ".", ".">>]

(* result.summary || ... || content.substring(0, 200) + '...' *)
extractSummary(result) ==
    IF Has(result, "summary") /\ result.summary # <<>> THEN Returned(result.summary)
    ELSE IF ~IsString(extractContent(result))
    THEN Threw("content.substring is not a function")
    ELSE Returned(Ellipsis(Substring(extractContent(result).text, SummaryLength)))

extractRelevanceScore(result) ==
    IF Has(result, "relevanceScore") /\ result.relevanceScore # 0
    THEN result.relevanceScore
    ELSE IF Has(result, "confidence") /\ result.confidence = "high" THEN 85
    ELSE IF Has(result, "confidence") /\ result.confidence = "medium" THEN 65
    ELSE 45

extractConfidence(result) ==
    IF Has(result, "confidence") THEN result.confidence
    ELSE IF extractRelevanceScore(result) >= 80 THEN "high"
    ELSE IF extractRelevanceScore(result) >= 60 THEN "medium"
    ELSE "low"

(* The record normalizeResults builds for rawResults[index]. *)
Normalized(result, index, summary) ==
    [id |-> index,
     source |-> IF Has(result, "source") THEN result.source ELSE "unknown",
     sourceUrl |-> IF Has(result, "url") THEN [href |-> result.url] ELSE Null,
     title |-> extractTitle(result),
     content |-> extractContent(result),
     summary |-> summary,
     relevanceScore |-> extractRelevanceScore(result),
     confidence |-> extractConfidence(result),
     timestamp |-> DateAged(0),
     sourceData |-> result,
     category |-> Uncategorized,
     tags |-> <<>>,
     qualityScore |-> 0]

(* normalizeResults(rawResults): the map stops at the first throw. *)
normalizeResults(rawResults) ==
    LET failing == {i \in 1..Len(rawResults) : extractSummary(rawResults[i]).threw}
    IN  IF failing # {}
        THEN extractSummary(rawResults[CHOOSE i \in failing : \A j \in failing : i <= j])
        ELSE Returned([i \in 1..Len(rawResults) |->
                Normalized(rawResults[i], i, extractSummary(rawResults[i]).value)])

(* deduplicateResults as the pipeline calls it: normalizeText(result.title) *)
(* and result.content.substring need strings.                              *)
WithText(result) ==
    [result EXCEPT !.title = result.title.text, !.content = result.content.text]

DeduplicateStage(results) ==
    LET failing == {i \in 1..Len(results) :
                        ~IsString(results[i].title) \/ ~IsString(results[i].content)}
        first == CHOOSE i \in failing : \A j \in failing : i <= j
    IN  IF failing = {}
        THEN Returned(deduplicateResults([i \in 1..Len(results) |-> WithText(results[i])]))
        ELSE IF ~IsString(results[first].title)
        THEN Threw("text.toLowerCase is not a function")
        ELSE Threw("result.content.substring is not a function")

(* generateTags: the source tag, which every result gets. *)
generateTags(result) == <<[source |-> result.source]>>

categorizeResults(results) ==
    [i \in 1..Len(results) |->
        [results[i] EXCEPT !.category = determineCategory(results[i]),
                           !.tags = generateTags(results[i])]]

calculateAverageQuality(results) ==
    IF Len(results) = 0 THEN 0
    ELSE RoundDiv(SumSeq([i \in 1..Len(results) |-> results[i].qualityScore]),
                  Len(results))

createStructuredOutput(originalResults, processedResults) ==
    [search |-> [id |-> originalResults.searchId, query |-> originalResults.query],
     results |->
        [total |-> Len(processedResults),
         items |-> processedResults,
         categories |-> {processedResults[i].category : i \in 1..Len(processedResults)},
         topResult |-> IF processedResults = <<>> THEN Null ELSE processedResults[1],
         highConfidenceResults |->
            SelectSeq(processedResults, LAMBDA r : r.confidence = "high"),
         averageQuality |-> calculateAverageQuality(processedResults)]]

(* createErrorOutput reads originalResults.searchId before anything else. *)
createErrorOutput(originalResults, message) ==
    IF originalResults = Null
    THEN Threw("Cannot read properties of null (reading 'searchId')")
    ELSE Returned(
            [search |-> [id |-> originalResults.searchId, query |-> originalResults.query,
                         error |-> message],
             results |-> [total |-> 0, items |-> <<>>, error |-> "Processing failed"],
             metadata |-> [error |-> message]])

(* The try block of processSearchResults. *)
ProcessingStages(searchResults) ==
    LET Normalize(raw) == normalizeResults(raw)
        Deduplicate_(normalized) == DeduplicateStage(normalized)
        Finish(deduplicated) ==
            Returned(createStructuredOutput(searchResults,
                        categorizeResults(scoreResults(deduplicated))))
    IN  Then(Then(Then(extractRawResults(searchResults), Normalize), Deduplicate_), Finish)

processSearchResults(searchResults) ==
    LET attempt == ProcessingStages(searchResults)
    IN  IF attempt.threw THEN createErrorOutput(searchResults, attempt.message)
        ELSE attempt

(* Entries of allResults: what combineSearchResults produces, and entries *)
(* whose title or content is not a string.                                 *)
FEDERAL_RESERVE == << <<"F", "e", "d", "e", "r", "a", "l">>, <<"R", "e", "s", "e", "r", "v", "e">> >>

TITLE_AB == << <<"A">>, <<"b">> >>

TITLE_AB_DOT == << <<"a">>, <<"b", ".">> >>

CONTENT_X == << <<"X">> >>

CONTENT_Y == << <<"y", "!">> >>

RawResults ==
    {[source |-> "perplexity", content |-> Str(FEDERAL_RESERVE), confidence |-> "high"],
     [source |-> "firecrawl", title |-> Str(TITLE_AB), content |-> Str(CONTENT_X),
      relevanceScore |-> 95, url |-> "https://example.com"],
     [source |-> "firecrawl", title |-> Str(TITLE_AB_DOT), content |-> Str(CONTENT_Y),
      relevanceScore |-> 80],
     [source |-> "firecrawl", title |-> Num(7), content |-> Str(CONTENT_X),
      relevanceScore |-> 50],
     [source |-> "firecrawl", content |-> Num(7)],
     [source |-> "firecrawl", title |-> Str(TITLE_AB), content |-> Num(7),
      summary |-> LongSummary],
     EmptyObject}

RawLists == UNION {[1..n -> RawResults] : n \in 0..MaxRaw}

ProcessInputs ==
    {Null,
     [searchId |-> "s1", query |-> QueryNames[1]],
     [searchId |-> "s1", query |-> QueryNames[1], results |-> Null],
     [searchId |-> "s1", query |-> QueryNames[1], results |-> [allResults |-> Null]],
     [searchId |-> "s1", query |-> QueryNames[1], results |-> [allResults |-> NotAnArray]]}
    \cup {[searchId |-> "s1", query |-> QueryNames[1], results |-> [allResults |-> Arr(list)]] :
            list \in RawLists}

ProcessSearchResults ==
    /\ callInput.op = "processSearchResults"
    /\ callOutput = Null
    /\ callOutput' = processSearchResults(callInput.searchResults)
    /\ UNCHANGED <<callInput, orchVars, dedupVars, hookVars, chatVars>>

----------------------------------------------------------------------------
(* executeFinancialSearch, Step 3: from the settled searches to the final  *)
(* results and workflow.steps.processing.                                  *)

MaxPhaseEntries == 1   \* longest allResults list of one search in Step 3

DefaultFallbackRelevance == 50   \* createFallbackResults: ... || 50

SEARCH == <<"S", "e", "a", "r", "c", "h">>

NO_CONTENT == << <<"N", "o">>, <<"c", "o", "n", "t", "e", "n", "t">>,
                 <<"a", "v", "a", "i", "l", "a", "b", "l", "e">> >>

RECURSIVE Flatten(_)
Flatten(lists) == IF lists = <<>> THEN <<>> ELSE Head(lists) \o Flatten(Tail(lists))

(* The allResults of the searches in `successful`, one list after another. *)
SuccessfulEntries(batchResults) ==
    Flatten([i \in 1..Len(batchResults.successful) |->
                IF batchResults.successful[i].results # Null
                THEN batchResults.successful[i].results.allResults
                ELSE <<>>])

(* FinancialSearchService.combineSearchResults *)
Service_combineSearchResults(batchResults, originalQuery, searchId) ==
    [searchId |-> searchId,
     query |-> originalQuery,
     status |-> "completed",
     results |-> [allResults |-> Arr(SuccessfulEntries(batchResults))]]

(* The item createFallbackResults makes of one entry. *)
FallbackItem(item) ==
    [source |-> IF Has(item, "source") THEN item.source ELSE "undefined",
     title |-> IF Has(item, "title") /\ Truthy(item.title) THEN item.title
               ELSE Str(<<SEARCH, RESULT>>),
     content |-> IF Has(item, "content") /\ Truthy(item.content) THEN item.content
                 ELSE Str(NO_CONTENT),
     url |-> IF Has(item, "url") THEN [href |-> item.url] ELSE Null,
     relevanceScore |-> IF Has(item, "relevanceScore") /\ item.relevanceScore # 0
                        THEN item.relevanceScore
                        ELSE DefaultFallbackRelevance]

Service_createFallbackResults_untitledDropped(searchResults, userQuery, searchId) ==
    LET allResults ==
            SelectSeq([i \in 1..Len(SuccessfulEntries(searchResults)) |->
                          FallbackItem(SuccessfulEntries(searchResults)[i])],
                      LAMBDA item : item.title # Str(<<SEARCH, RESULT>>))
    IN  [search |-> [id |-> searchId, query |-> userQuery, fallback |-> TRUE],
         results |-> [total |-> Len(allResults), items |-> allResults],
         metadata |-> [fallback |-> TRUE]]

(* FinancialSearchService.createFallbackResults *)
Service_createFallbackResults(searchResults, userQuery, searchId) ==
    LET allResults ==
            [i \in 1..Len(SuccessfulEntries(searchResults)) |->
                FallbackItem(SuccessfulEntries(searchResults)[i])]
    IN  [search |-> [id |-> searchId, query |-> userQuery, fallback |-> TRUE],
         results |-> [total |-> Len(allResults), items |-> allResults],
         metadata |-> [fallback |-> TRUE]]

(* What the search phase hands on: one resolved executeParallelSearch      *)
(* result wrapped as its own batch, or the value of executeBatchSearch.    *)
SearchPhaseResults(subQuestions, perQuery) ==
    IF Len(subQuestions) = 1
    THEN [queries |-> subQuestions, results |-> perQuery,
          successful |-> perQuery, failed |-> <<>>]
    ELSE BatchValue(subQuestions, perQuery)

(* options.enableResultsProcessing !== false, with the service's           *)
(* config.enableResultsProcessing true.                                    *)
ProcessingEnabled(options) ==
    ~(Has(options, "enableResultsProcessing") /\ ~options.enableResultsProcessing)

(* The try block of Step 3: processSearchResults, then the summary the     *)
(* step record is made of, which reads Object.keys(results.categories).    *)
ProcessingAttempt(combined) ==
    LET Summarize(finalResults) ==
            IF ~Has(finalResults.results, "categories")
            THEN Threw("Cannot convert undefined or null to object")
            ELSE Returned(
                    [finalResults |-> finalResults,
                     processing |->
                        [success |-> TRUE,
                         totalResults |-> finalResults.results.total,
                         averageQuality |-> finalResults.results.averageQuality,
                         categories |-> Cardinality(finalResults.results.categories)]])
    IN  Then(processSearchResults(combined), Summarize)

(* Step 3 as a whole. *)
ProcessingPhase(searchResults, userQuery, searchId, options) ==
    LET combined == Service_combineSearchResults(searchResults, userQuery, searchId)
        attempt == ProcessingAttempt(combined)
        fallback == Service_createFallbackResults(searchResults, userQuery, searchId)
    IN  IF ~ProcessingEnabled(options)
        THEN [finalResults |-> fallback,
              processing |-> [success |-> TRUE, note |-> "Results processing disabled"]]
        ELSE IF attempt.threw
        THEN [finalResults |-> fallback,
              processing |-> [success |-> FALSE, error |-> attempt.message]]
        ELSE attempt.value

(* What one query's search settled with, by status: the record of a        *)
(* completed or partial_success search, or the entry executeBatchSearch    *)
(* makes of a rejected one.                                                *)
PhaseLists == UNION {[1..n -> RawResults] : n \in 0..MaxPhaseEntries}

SearchValue(query, status, list) ==
    IF status = SearchStatus.FAILED
    THEN [query |-> query, status |-> status, error |-> TimeoutMessage, results |-> Null]
    ELSE [query |-> query, status |-> status, results |-> [allResults |-> list]]

SearchValues(query) ==
    {SearchValue(query, status, list) :
        status \in {SearchStatus.COMPLETED, "partial_success"}, list \in PhaseLists}
    \cup {SearchValue(query, SearchStatus.FAILED, <<>>)}

(* One query whose search resolved, or two queries settled any way. *)
PhaseInputs ==
    {[subQuestions |-> <<QueryNames[1]>>, perQuery |-> <<value>>, options |-> options] :
        value \in {v \in SearchValues(QueryNames[1]) : v.status # SearchStatus.FAILED},
        options \in {EmptyObject, [enableResultsProcessing |-> FALSE]}}
    \cup
    {[subQuestions |-> <<QueryNames[1], QueryNames[2]>>, perQuery |-> <<first, second>>,
      options |-> options] :
        first \in SearchValues(QueryNames[1]), second \in SearchValues(QueryNames[2]),
        options \in {EmptyObject, [enableResultsProcessing |-> FALSE]}}

ProcessingPhaseRuns ==
    /\ callInput.op = "processingPhase"
    /\ callOutput = Null
    /\ LET searchResults == SearchPhaseResults(callInput.subQuestions, callInput.perQuery)
       IN  callOutput' =
              Returned([searchResults |-> searchResults,
                        phase |-> ProcessingPhase(searchResults, callInput.subQuestions[1],
                                                  "s1", callInput.options)])
    /\ UNCHANGED <<callInput, orchVars, dedupVars, hookVars, chatVars>>

----------------------------------------------------------------------------
(* The bytes of a streamed response and the client that reads them.  A     *)
(* byte stream is a sequence of symbols: the line feed, a field prefix     *)
(* ("id: ", "event: ", "data: "), an event name, an id, or the JSON text   *)
(* of a data object.  The network hands the stream to the client cut at    *)
(* any symbol boundaries.                                                  *)

MaxStreamChunks == 2   \* most message_chunk events of one response

MaxCuts == 2           \* most places where the byte stream is cut into reads

LF == [ch |-> "\n"]

Prefix(text) == [ch |-> text]

MessageId(name) == [id |-> name]

(* formatSSEMessage(event, data, id) *)
formatSSEMessage(event, data, id) ==
    (IF id # Null THEN <<Prefix("id: "), id, LF>> ELSE <<>>)
    \o <<Prefix("event: "), [name |-> event], LF>>
    \o <<Prefix("data: "), [json |-> data], LF, LF>>

(* What streamMessageInChunks writes for a message of n chunks; chunk k    *)
(* carries the text k.                                                     *)
ChunkMessages(n) ==
    formatSSEMessage("message_start", [id |-> "chunk_1", totalLength |-> n], MessageId("chunk_1"))
    \o Flatten([k \in 1..n |->
                   formatSSEMessage("message_chunk", [id |-> "chunk_1", text |-> k],
                                    MessageId("chunk_1"))])
    \o formatSSEMessage("message_end", [id |-> "chunk_1", complete |-> TRUE], MessageId("chunk_1"))

(* The whole body of a POST /api/chat/stream response that streamed a plan. *)
StreamBody(n) ==
    formatSSEMessage("planning_start", [id |-> "msg_1"], MessageId("msg_1"))
    \o formatSSEMessage("planning_complete", [id |-> "msg_1"], MessageId("msg_1"))
    \o ChunkMessages(n)

(* The reads a body arrives in when it is cut after the positions in cuts. *)
RECURSIVE ReadsOf(_, _, _)
ReadsOf(bytes, cuts, from) ==
    IF from > Len(bytes) THEN <<>>
    ELSE LET later == {c \in cuts : c >= from}
             upTo == IF later = {} THEN Len(bytes)
                     ELSE CHOOSE c \in later : \A d \in later : c <= d
         IN  <<SubSeq(bytes, from, upTo)>> \o ReadsOf(bytes, cuts, upTo + 1)

RECURSIVE CutSets(_, _)
CutSets(length, k) ==
    IF k = 0 THEN {{}}
    ELSE LET fewer == CutSets(length, k - 1)
         IN  fewer \cup {s \cup {c} : s \in fewer, c \in 1..(length - 1)}

(* buffer.split('\n') *)
RECURSIVE SplitLines(_, _)
SplitLines(buffer, line) ==
    IF buffer = <<>> THEN <<line>>
    ELSE IF Head(buffer) = LF THEN <<line>> \o SplitLines(Tail(buffer), <<>>)
    ELSE SplitLines(Tail(buffer), Append(line, Head(buffer)))

StartsWith(line, text) == line # <<>> /\ Head(line) = Prefix(text)

(* The for loop over the complete lines of one read.  cur holds            *)
(* currentEvent and currentData, a field being absent while the variable   *)
(* is null; c is the promise and what it has gathered.  A return inside    *)
(* the loop leaves the rest unread.                                        *)
RECURSIVE ProcessLines(_, _, _)
ProcessLines(lines, cur, c) ==
    IF lines = <<>> \/ c.pc # "reading" THEN c
    ELSE LET line == Head(lines)
             rest == Tail(lines)
         IN  IF StartsWith(line, "event: ")
             THEN ProcessLines(rest, Put(cur, "event", line[2].name), c)
             ELSE IF StartsWith(line, "data: ")
             THEN ProcessLines(rest, Put(cur, "data", line[2].json), c)
             ELSE IF line = <<>> /\ Has(cur, "event") /\ Has(cur, "data")
             THEN IF cur.event = "chunk" /\ Has(cur.data, "text")
                  THEN ProcessLines(rest, EmptyObject,
                          [c EXCEPT !.fullResponse = Append(@, cur.data.text),
                                    !.tokens = Append(@, Append(c.fullResponse,
                                                                cur.data.text))])
                  ELSE IF cur.event = "end"
                  THEN [c EXCEPT !.pc = "resolved", !.value = c.fullResponse]
                  ELSE IF cur.event = "error"
                  THEN [c EXCEPT !.pc = "rejected"]
                  ELSE ProcessLines(rest, EmptyObject, c)
             ELSE ProcessLines(rest, cur, c)

(* readStream: one turn of the while loop per read, then the end of the    *)
(* stream.  currentEvent and currentData are declared inside the loop.     *)
RECURSIVE readStream(_, _, _)
readStream(reads, buffer, c) ==
    IF c.pc # "reading" THEN c
    ELSE IF reads = <<>> THEN [c EXCEPT !.pc = "resolved", !.value = c.fullResponse]
    ELSE LET lines == SplitLines(buffer \o Head(reads), <<>>)
         IN  readStream(Tail(reads), lines[Len(lines)],
                        ProcessLines(SubSeq(lines, 1, Len(lines) - 1),
                                     EmptyObject, c))

(* sendChatMessageStream against a response that is ok and an event stream. *)
sendChatMessageStream(reads) ==
    readStream(reads, <<>>,
               [pc |-> "reading", fullResponse |-> <<>>, tokens |-> <<>>, value |-> Null])

SendChatMessageStream ==
    /\ callInput.op = "sendChatMessageStream"
    /\ callOutput = Null
    /\ callOutput' =
          Returned(sendChatMessageStream(
                      ReadsOf(StreamBody(callInput.chunks), callInput.cuts, 1)))
    /\ UNCHANGED <<callInput, orchVars, dedupVars, hookVars, chatVars>>

----------------------------------------------------------------------------
(* SpecCalls: one direct call of a pure method with an argument of any     *)
(* shape.                                                                  *)

InitCalls ==
    /\ config = orchestratorConfig
    /\ OrchestratorIdle
    /\ DedupIdle
    /\ ChatIdle
    /\ callOutput = Null
    /\ \/ \E results \in ScoreInputs :
            callInput = [op |-> "scoreResults", results |-> results]
       \/ \E result \in CategoryInputs :
            callInput = [op |-> "determineCategory", result |-> result]
       \/ \E searchOperation \in CombineInputs :
            callInput = [op |-> "combineSearchResults", searchOperation |-> searchOperation]
       \/ \E searchResults \in ProcessInputs :
            callInput = [op |-> "processSearchResults", searchResults |-> searchResults]
       \/ \E chunks \in 1..MaxStreamChunks :
            \E cuts \in CutSets(Len(StreamBody(chunks)), MaxCuts) :
                callInput = [op |-> "sendChatMessageStream", chunks |-> chunks, cuts |-> cuts]
       \/ \E input \in PhaseInputs :
            callInput = [op |-> "processingPhase", subQuestions |-> input.subQuestions,
                         perQuery |-> input.perQuery, options |-> input.options]

NextCalls ==
    \/ ScoreResults
    \/ DetermineCategory
    \/ CombineSearchResults
    \/ ProcessSearchResults
    \/ ProcessingPhaseRuns
    \/ SendChatMessageStream

SpecCalls == InitCalls /\ [][NextCalls]_vars

----------------------------------------------------------------------------
(* C11: for every well-formed normalized record scoreResults returns       *)
(* without throwing and gives the record a whole qualityScore from 0 to    *)
(* 100.                                                                    *)
C11_QualityScoreInRange ==
    (callInput.op = "scoreResults" /\ callOutput # Null) =>
        /\ ~callOutput.threw
        /\ Len(callOutput.value) = Len(callInput.results)
        /\ \A i \in 1..Len(callOutput.value) :
              callOutput.value[i].qualityScore \in 0..100

(* Two records were scored and ranked, the lower one with every field      *)
(* empty or default.                                                       *)
C11_Witness ==
    /\ callInput.op = "scoreResults"
    /\ callOutput # Null
    /\ Len(callOutput.value) = 2
    /\ callOutput.value[1].qualityScore = 90
    /\ callOutput.value[2].qualityScore = 25
    /\ callOutput.value[2].title = <<>>
    /\ callOutput.value[2].relevanceScore = 0
    /\ callOutput.value[2].timestamp = InvalidDate

Categories == {CategoryOrder[k] : k \in DOMAIN CategoryOrder} \cup {GeneralFinancial}

(* The first group, in the fixed order, with a keyword in the text. *)
FirstMatchingCategory(result) ==
    LET matching == {k \in DOMAIN CategoryOrder :
                        Matches(CategoryText(result), CategoryWords[CategoryOrder[k]])}
    IN  IF matching = {} THEN GeneralFinancial
        ELSE CategoryOrder[CHOOSE k \in matching : \A other \in matching : k <= other]

(* C12: determineCategory returns one of the seven categories, the first   *)
(* keyword group that matches or general_financial, and no item that       *)
(* processSearchResults returns is left 'uncategorized'.                   *)
C12_CategoryTotal ==
    /\ (callInput.op = "determineCategory" /\ callOutput # Null) =>
          /\ ~callOutput.threw
          /\ callOutput.value \in Categories
          /\ callOutput.value = FirstMatchingCategory(callInput.result)
    /\ (callInput.op = "processSearchResults" /\ callOutput # Null /\ ~callOutput.threw) =>
          \A i \in 1..Len(callOutput.value.results.items) :
              LET item == callOutput.value.results.items[i]
              IN  /\ item.category \in Categories
                  /\ item.category # Uncategorized
                  /\ item.category = FirstMatchingCategory(item)

(* A text with keywords of two groups got the category of the earlier one. *)
C12_Witness ==
    /\ callInput.op = "determineCategory"
    /\ callOutput # Null
    /\ Matches(CategoryText(callInput.result), InflationWords)
    /\ Matches(CategoryText(callInput.result), StockMarketWords)
    /\ ~Matches(CategoryText(callInput.result), InterestRateWords)
    /\ callOutput.value = "inflation"

(* What an entry counts for in the mean: 90 when its confidence is 'high', *)
(* else its relevance score when it has one, else 50.                      *)
EntryContribution(entry) ==
    IF Has(entry, "confidence") /\ entry.confidence = "high" THEN 90
    ELSE IF Has(entry, "relevanceScore") THEN entry.relevanceScore
    ELSE 50

(* C13: combinedConfidence is the rounded mean of the entries'             *)
(* contributions, 0 without entries; one high-confidence entry with        *)
(* extractions of relevance 95 and 80 gives 2 sources, 3 entries and 88.   *)
C13_CombinedConfidenceIsMean ==
    (callInput.op = "combineSearchResults" /\ callOutput # Null) =>
        LET combined == callOutput.value
            entries == combined.allResults
            given == callInput.searchOperation.results
        IN  /\ combined.summary.combinedConfidence =
                  IF entries = <<>> THEN 0
                  ELSE RoundDiv(SumSeq([i \in 1..Len(entries) |->
                                            EntryContribution(entries[i])]),
                                Len(entries))
            /\ (given.perplexity = PerplexityResult("ok")
                /\ given.firecrawl = FirecrawlResult("ok")) =>
                  /\ Len(combined.sources) = 2
                  /\ Len(entries) = 3
                  /\ combined.summary.combinedConfidence = 88

(* C14: when a stage of processSearchResults throws, the call returns the  *)
(* error record, with total 0, no items and the error's message, and       *)
(* throws nothing.                                                         *)
C14_ErrorRecordOnThrow ==
    (callInput.op = "processSearchResults" /\ callOutput # Null
     /\ ProcessingStages(callInput.searchResults).threw) =>
        /\ ~callOutput.threw
        /\ callOutput.value.results.total = 0
        /\ callOutput.value.results.items = <<>>
        /\ callOutput.value.search.error = ProcessingStages(callInput.searchResults).message

----------------------------------------------------------------------------
(* The chat routes.  A string is kept by what the routes look at: its      *)
(* length and the length of what trim() leaves of it.                      *)

StringOf(length, trimmed) == [type |-> "string", length |-> length, trimmed |-> trimmed]

Text(length) == [type |-> "string", length |-> length]

(* req.body.message: absent, null, a number, or a string that is empty,    *)
(* blank, shorter than 5 once trimmed, ordinary, 500 long or longer.       *)
Messages ==
    {Undefined, [type |-> "null"], [type |-> "number", value |-> 0],
     [type |-> "number", value |-> 7],
     StringOf(0, 0), StringOf(3, 0), StringOf(2, 2), StringOf(7, 4),
     StringOf(5, 5), StringOf(21, 21), StringOf(500, 500), StringOf(501, 501)}

Falsy(value) ==
    \/ value.type \in {"undefined", "null"}
    \/ value.type = "number" /\ value.value = 0
    \/ value.type = "string" /\ value.length = 0

(* The routes' basic validation with the blank-string test left out. *)
ValidMessage_noTrim(message) ==
    ~(Falsy(message) \/ message.type # "string")

(* !message || typeof message !== 'string' || message.trim().length === 0 *)
ValidMessage(message) ==
    ~(Falsy(message) \/ message.type # "string" \/ message.trimmed = 0)

BadRequest == [error |-> "Bad Request"]

MinQuestionLength == 5      \* validateFinancialQuestion: cleanQuestion.length < 5
MaxQuestionLength == 500    \* validateFinancialQuestion: cleanQuestion.length > 500

NOT_A_STRING == [text |-> "Question must be a non-empty string", length |-> 35]
TOO_SHORT == [text |-> "Question is too short (minimum 5 characters)", length |-> 44]
TOO_LONG == [text |-> "Question is too long (maximum 500 characters)", length |-> 45]

validateFinancialQuestion(question) ==
    IF Falsy(question) \/ question.type # "string"
    THEN [isValid |-> FALSE, error |-> NOT_A_STRING]
    ELSE IF question.trimmed < MinQuestionLength
    THEN [isValid |-> FALSE, error |-> TOO_SHORT]
    ELSE IF question.trimmed > MaxQuestionLength
    THEN [isValid |-> FALSE, error |-> TOO_LONG]
    ELSE [isValid |-> TRUE]

InvalidQuestionPrefix == 18   \* length of 'Invalid question: '

(* planFinancialResearch up to its first wait: it throws for a question    *)
(* that does not validate, and else waits for generateResearchPlan.        *)
planFinancialResearch(userQuestion) ==
    LET validation == validateFinancialQuestion(userQuestion)
    IN  IF ~validation.isValid
        THEN Threw([text |-> validation.error.text,
                    length |-> InvalidQuestionPrefix + validation.error.length])
        ELSE Returned("pending")

MinPlanQuestions == 2   \* parseResearchPlan: subQuestions.length < 2
MaxPlanQuestions == 4   \* parseResearchPlan: subQuestions.length > 4

SUB_QUESTION == Text(40)
RESEARCH_FOCUS == Text(30)
FALLBACK_FOCUS == Text(54)  \* 'General research approach due to planning system error'

(* Lengths of the fixed parts of the three fallback sub-questions. *)
FallbackQuestionPrefixes == <<38, 41, 41>>

(* What generateResearchPlan resolves with: the plan parsed from the       *)
(* model's answer, of 2 to 4 sub-questions, or on any error the fallback   *)
(* plan of three.                                                          *)
ResearchPlans(userQuestion) ==
    {[subQuestions |-> [i \in 1..n |-> SUB_QUESTION],
      researchFocus |-> RESEARCH_FOCUS,
      status |-> "completed"] : n \in MinPlanQuestions..MaxPlanQuestions}
    \cup
    {[subQuestions |-> [i \in 1..3 |->
                           Text(FallbackQuestionPrefixes[i] + userQuestion.length)],
      researchFocus |-> FALLBACK_FOCUS,
      status |-> "fallback"]}

maxSubQuestions == 5   \* FinancialSearchService.config.maxSubQuestions

Slice(list, count) == SubSeq(list, 1, IF Len(list) < count THEN Len(list) ELSE count)

(* executeFinancialSearch, Step 2 entered: the sub-questions handed to the *)
(* orchestrator, as one executeParallelSearch call when there is one and   *)
(* as executeBatchSearch otherwise.                                        *)
StartSearching(userQuery, subQuestions, planning) ==
    [pc |-> "searching",
     userQuery |-> userQuery,
     subQuestions |-> subQuestions,
     searched |-> subQuestions,
     mode |-> IF Len(subQuestions) = 1 THEN "single" ELSE "batch",
     steps |-> [NoSteps EXCEPT !.planning = planning],
     returned |-> Null]

(* executeFinancialSearch up to its first wait.  A rejected planning call  *)
(* is caught at once and the search starts with the original query.        *)
StartWorkflow(userQuery) ==
    LET planning == planFinancialResearch(userQuery)
    IN  IF planning.threw
        THEN StartSearching(userQuery, <<userQuery>>,
                            [success |-> FALSE, error |-> planning.message,
                             fallback |-> TRUE, subQuestions |-> <<userQuery>>])
        ELSE [NoWorkflow EXCEPT !.pc = "planning", !.userQuery = userQuery]

SEARCH_TIMEOUT == [text |-> "Search timeout", length |-> 14]

(* What the orchestrator settles the search with.  One executeParallelSearch *)
(* call resolves completed or partial_success, or rejects on a timeout     *)
(* without usable data; executeBatchSearch always resolves, with each      *)
(* query among the successful or the failed.                               *)
SearchOutcomes(w) ==
    IF w.mode = "single"
    THEN {Returned([successful |-> 1, failed |-> 0, status |-> status]) :
              status \in {"completed", "partial_success"}}
         \cup {Threw(SEARCH_TIMEOUT)}
    ELSE {Returned([successful |-> k, failed |-> Len(w.subQuestions) - k,
                    status |-> "batch"]) : k \in 0..Len(w.subQuestions)}

(* Numbers of items resultsProcessor makes of the combined results. *)
ProcessedTotals(searchResults) ==
    IF searchResults.successful = 0 THEN {0} ELSE {0, 3}

(* workflow.steps.searching as the search phase records it. *)
SearchingStep(w, search) ==
    IF search.threw
    THEN [success |-> FALSE, error |-> search.message]
    ELSE [success |-> TRUE,
          totalQueries |-> Len(w.subQuestions),
          successful |-> search.value.successful,
          failed |-> search.value.failed]

(* executeFinancialSearch from the settled search to its return value:     *)
(* Step 3 and the workflow summary, or the error record of the outer catch *)
(* when the search rejected.                                               *)
executeFinancialSearch(w, search, total) ==
    IF search.threw
    THEN [search |-> [query |-> w.userQuery, error |-> search.message],
          results |-> [total |-> 0, items |-> <<>>, error |-> "Search failed"],
          workflow |-> [userQuery |-> w.userQuery, error |-> search.message]]
    ELSE [search |-> [query |-> w.userQuery],
          results |-> [total |-> total],
          workflow |->
              [userQuery |-> w.userQuery,
               steps |-> [w.steps EXCEPT
                   !.searching = SearchingStep(w, search),
                   !.processing = [success |-> TRUE, totalResults |-> total]],
               status |-> "completed"]]

(* generateFinalAnswer: the model's answer, or on any error the apology,   *)
(* both returned.                                                          *)
generateFinalAnswer(searchResults, outcome) ==
    IF outcome = "ok"
    THEN Returned([answer |-> "generated",
                   searchResultsUsed |-> searchResults.results.total,
                   status |-> "completed"])
    ELSE Returned([answer |-> "apology for the answer",
                   searchResultsUsed |-> searchResults.results.total,
                   status |-> "fallback",
                   error |-> "model error"])

(* The body POST /api/chat answers with: the success payload, or the       *)
(* fallback payload when the workflow threw.                               *)
ChatBody(message, attempt) ==
    IF attempt.threw
    THEN [originalQuestion |-> message,
          answer |-> "apology for the research",
          error |-> attempt.message,
          status |-> "fallback"]
    ELSE [originalQuestion |-> message,
          answer |-> attempt.value.answer,
          searchResultsUsed |-> attempt.value.searchResultsUsed,
          status |-> "success"]

(* POST /api/chat up to its first wait. *)
PostChat(message) ==
    /\ request = NoRequest
    /\ request' = [route |-> "/", message |-> message]
    /\ IF ~ValidMessage(message)
       THEN /\ response' = [response EXCEPT !.statusCode = 400,
                                            !.body = BadRequest,
                                            !.ended = TRUE, !.ends = @ + 1]
            /\ UNCHANGED <<workflow, serviceCalls>>
       ELSE /\ workflow' = StartWorkflow(message)
            /\ serviceCalls' =
                  [serviceCalls EXCEPT
                      !.planning = @ + 1,
                      !.search = IF workflow'.pc = "searching" THEN @ + 1 ELSE @]
            /\ UNCHANGED response
    /\ UNCHANGED <<stream, orchVars, dedupVars, hookVars, callVars>>

(* The planning call of executeFinancialSearch resolves. *)
ChatPlanningSettles ==
    /\ workflow.pc = "planning"
    /\ \E plan \in ResearchPlans(workflow.userQuery) :
          LET subQuestions == Slice(plan.subQuestions, maxSubQuestions)
          IN  workflow' = StartSearching(workflow.userQuery, subQuestions,
                                         [success |-> TRUE,
                                          subQuestions |-> subQuestions,
                                          originalPlan |-> plan])
    /\ serviceCalls' = [serviceCalls EXCEPT !.search = @ + 1]
    /\ UNCHANGED <<request, response, stream, orchVars, dedupVars, hookVars, callVars>>

(* The search settles; executeFinancialSearch returns and the route calls  *)
(* generateFinalAnswer.                                                    *)
ChatSearchSettles ==
    /\ workflow.pc = "searching"
    /\ \E search \in SearchOutcomes(workflow) :
       \E total \in (IF search.threw THEN {0} ELSE ProcessedTotals(search.value)) :
          workflow' = [workflow EXCEPT
              !.pc = "answering",
              !.steps.searching = SearchingStep(workflow, search),
              !.steps.processing = IF search.threw THEN Null
                                   ELSE [success |-> TRUE, totalResults |-> total],
              !.returned = executeFinancialSearch(workflow, search, total)]
    /\ serviceCalls' = [serviceCalls EXCEPT !.answering = @ + 1]
    /\ UNCHANGED <<request, response, stream, orchVars, dedupVars, hookVars, callVars>>

(* generateFinalAnswer settles and the route sends its answer. *)
AnswerSettles ==
    /\ workflow.pc = "answering"
    /\ workflow' = [workflow EXCEPT !.pc = "done"]
    /\ \E outcome \in {"ok", "error"} :
          response' = [response EXCEPT
              !.statusCode = 200,
              !.body = ChatBody(request.message,
                                generateFinalAnswer(workflow.returned, outcome)),
              !.ended = TRUE, !.ends = @ + 1]
    /\ UNCHANGED <<request, stream, serviceCalls, orchVars, dedupVars, hookVars, callVars>>

(* Lengths of the fixed text of the two streamed messages. *)
FallbackMessageFixed == 253   \* POST /stream: fallbackMessage without ${...}
PlanIntroLength == 33         \* 'I've analyzed your question: ""\n\n'
PlanCountLength == 58         \* 'Here's my research plan with N key areas ...\n\n'
PlanItemLength == 5           \* 'N. ' and '\n\n' around a sub-question
PlanFocusLength == 18         \* 'Research Focus: \n\n'
PlanNoteLength == 132         \* 'Note: This is the planning step. ...'

FallbackMessageLength(message, planningError) ==
    FallbackMessageFixed + message.length + planningError.length

PlanMessageLength(userQuestion, researchPlan) ==
    PlanIntroLength + userQuestion.length + PlanCountLength
    + SumSeq([i \in 1..Len(researchPlan.subQuestions) |->
                 PlanItemLength + researchPlan.subQuestions[i].length])
    + PlanFocusLength + researchPlan.researchFocus.length + PlanNoteLength

(* res.write(formatSSEMessage(event, ...)): the event's name joins what    *)
(* was written to the response.                                            *)
Write(res, event) ==
    [res EXCEPT !.events = Append(@, event), !.writtenAfterEnd = @ \/ res.ended]

(* res.end() *)
End(res) == [res EXCEPT !.ended = TRUE, !.ends = @ + 1]

(* sendChunk: message_end and res.end() once the message is through, else *)
(* the next chunk and a timer for the one after.                           *)
sendChunk(res, s) ==
    IF s.currentIndex >= s.length
    THEN [response |-> End(Write(res, "message_end")),
          stream |-> [s EXCEPT !.pc = "done", !.settled = TRUE]]
    ELSE [response |-> Write(res, "message_chunk"),
          stream |-> [s EXCEPT !.pc = "chunking",
                               !.currentIndex = @ + s.chunkSize,
                               !.scheduled = @ + 1]]

(* streamMessageInChunks up to its return: message_start, the 'close'      *)
(* listener, and the first sendChunk.                                      *)
streamMessageInChunks(res, fullMessage, chunkSize, delay) ==
    sendChunk(Write(res, "message_start"),
              [NoStream EXCEPT !.pc = "chunking", !.length = fullMessage,
                               !.chunkSize = chunkSize, !.delay = delay,
                               !.listening = TRUE])

(* POST /api/chat/stream up to its first wait.  A rejected planning call   *)
(* is caught at once: planning_error is written and the fallback message   *)
(* starts streaming.                                                       *)
PostStream(message) ==
    /\ request = NoRequest
    /\ request' = [route |-> "/stream", message |-> message]
    /\ IF ~ValidMessage(message)
       THEN /\ response' = [response EXCEPT !.statusCode = 400,
                                            !.body = BadRequest,
                                            !.ended = TRUE, !.ends = @ + 1]
            /\ UNCHANGED <<stream, serviceCalls>>
       ELSE LET res == [response EXCEPT !.sseHeaders = TRUE, !.statusCode = 200]
                planning == planFinancialResearch(message)
                started == streamMessageInChunks(
                               Write(res, "planning_error"),
                               FallbackMessageLength(message, planning.message),
                               20, 80)
            IN  /\ serviceCalls' = [serviceCalls EXCEPT !.planning = @ + 1]
                /\ IF planning.threw
                   THEN /\ response' = started.response
                        /\ stream' = started.stream
                   ELSE /\ response' = res
                        /\ stream' = [stream EXCEPT !.pc = "planning"]
    /\ UNCHANGED <<workflow, orchVars, dedupVars, hookVars, callVars>>

(* The planning call of POST /api/chat/stream resolves: streamResearchPlan *)
(* writes planning_start and waits its 500 ms.                             *)
StreamPlanningSettles ==
    /\ stream.pc = "planning"
    /\ response' = Write(response, "planning_start")
    /\ \E plan \in ResearchPlans(request.message) :
          stream' = [stream EXCEPT !.pc = "planDelay", !.plan = plan]
    /\ UNCHANGED <<request, workflow, serviceCalls, orchVars, dedupVars, hookVars, callVars>>

(* streamResearchPlan after its wait: planning_complete, then the plan's   *)
(* message starts streaming.                                               *)
PlanDelayElapsed ==
    /\ stream.pc = "planDelay"
    /\ LET started == streamMessageInChunks(
                          Write(response, "planning_complete"),
                          PlanMessageLength(request.message, stream.plan),
                          25, 60)
       IN  /\ response' = started.response
           /\ stream' = [started.stream EXCEPT !.plan = stream.plan]
    /\ UNCHANGED <<request, workflow, serviceCalls, orchVars, dedupVars, hookVars, callVars>>

(* A timer set by sendChunk fires. *)
ChunkTimer ==
    /\ stream.pc = "chunking"
    /\ LET sent == sendChunk(response, stream)
       IN  /\ response' = sent.response
           /\ stream' = sent.stream
    /\ UNCHANGED <<request, workflow, serviceCalls, orchVars, dedupVars, hookVars, callVars>>

(* The client goes away while the stream is open: the response emits       *)
(* 'close', and the listener of streamMessageInChunks, when it is there,   *)
(* resolves the promise.                                                   *)
ClientDisconnect ==
    /\ request.route = "/stream"
    /\ response.sseHeaders
    /\ ~response.ended
    /\ ~response.closed
    /\ response' = [response EXCEPT !.closed = TRUE]
    /\ stream' = [stream EXCEPT !.settled = @ \/ stream.listening]
    /\ UNCHANGED <<request, workflow, serviceCalls, orchVars, dedupVars, hookVars, callVars>>

(* The response emits 'error' while streamMessageInChunks listens and its  *)
(* promise is pending: the promise rejects.  On the plan path the catch of  *)
(* streamResearchPlan, on the fallback path the outer catch of the route    *)
(* (the headers are out by then) writes the 'error' event and ends the      *)
(* response.  The timer set by sendChunk is not cleared.                    *)
ResponseError ==
    /\ stream.pc = "chunking"
    /\ stream.listening
    /\ ~stream.settled
    /\ response' = End(Write(response, "error"))
    /\ stream' = [stream EXCEPT !.settled = TRUE]
    /\ UNCHANGED <<request, workflow, serviceCalls, orchVars, dedupVars, hookVars, callVars>>

----------------------------------------------------------------------------
(* SpecChat: one request to POST /api/chat or POST /api/chat/stream, with  *)
(* any message, any outcome of the planning, search and answering calls,   *)
(* and a response that may emit 'close' (the client disconnects) or        *)
(* 'error' at any moment of the stream.                                    *)

InitChat ==
    /\ config = orchestratorConfig
    /\ OrchestratorIdle
    /\ DedupIdle
    /\ CallIdle
    /\ ChatIdle

NextChat ==
    \/ \E message \in Messages : PostChat(message)
    \/ ChatPlanningSettles
    \/ ChatSearchSettles
    \/ AnswerSettles
    \/ \E message \in Messages : PostStream(message)
    \/ StreamPlanningSettles
    \/ PlanDelayElapsed
    \/ ChunkTimer
    \/ ClientDisconnect
    \/ ResponseError

SpecChat == InitChat /\ [][NextChat]_vars

----------------------------------------------------------------------------
(* The useChat hook.  useChat.sending holds one entry per sendMessage call *)
(* that got past its guard: "fetching" while fetch is awaited, "reading"    *)
(* while response.json() is awaited, "done" once the call has returned.     *)
(* State updates are taken as applied when they are requested.              *)

MaxSends == 2   \* most sendMessage calls on one hook

BLANK == "   "

Texts == {BLANK, "rates?"}

(* text.trim() is the empty string *)
IsBlank(text) == text = BLANK

(* sendMessage(text) up to `await fetch(...)`. *)
sendMessage(text) ==
    /\ Len(useChat.sending) < MaxSends
    /\ ~IsBlank(text)
    /\ useChat' = [useChat EXCEPT !.messages = Append(@, "user"),
                                  !.isLoading = TRUE,
                                  !.error = Null,
                                  !.sending = Append(@, "fetching")]
    /\ UNCHANGED <<orchVars, dedupVars, callVars, chatVars>>

(* catch (err) { setError(err.message) } finally { setIsLoading(false) } *)
SendFailed(hook, call, message) ==
    [hook EXCEPT !.error = [message |-> message],
                 !.isLoading = FALSE,
                 !.sending[call] = "done"]

(* fetch settles for a call: it rejects, or resolves with a response that  *)
(* is ok or not.                                                           *)
FetchSettles(call, outcome) ==
    /\ call \in DOMAIN useChat.sending
    /\ useChat.sending[call] = "fetching"
    /\ useChat' =
          IF outcome = "rejected" THEN SendFailed(useChat, call, "Failed to fetch")
          ELSE IF outcome = "not ok" THEN SendFailed(useChat, call, "API error: 500")
          ELSE [useChat EXCEPT !.sending[call] = "reading"]
    /\ UNCHANGED <<orchVars, dedupVars, callVars, chatVars>>

(* response.json() settles for a call: the bot message is added, or the    *)
(* body was not JSON.                                                      *)
JsonSettles(call, outcome) ==
    /\ call \in DOMAIN useChat.sending
    /\ useChat.sending[call] = "reading"
    /\ useChat' =
          IF outcome = "rejected" THEN SendFailed(useChat, call, "Unexpected token")
          ELSE [useChat EXCEPT !.messages = Append(@, "bot"),
                               !.isLoading = FALSE,
                               !.sending[call] = "done"]
    /\ UNCHANGED <<orchVars, dedupVars, callVars, chatVars>>

(* clearChat() *)
clearChat ==
    /\ useChat.messages # <<>> \/ useChat.error # Null
    /\ useChat' = [useChat EXCEPT !.messages = <<>>, !.error = Null]
    /\ UNCHANGED <<orchVars, dedupVars, callVars, chatVars>>

NextHook ==
    \/ \E text \in Texts : sendMessage(text)
    \/ \E call \in 1..MaxSends, outcome \in {"ok", "not ok", "rejected"} :
          FetchSettles(call, outcome)
    \/ \E call \in 1..MaxSends, outcome \in {"ok", "rejected"} : JsonSettles(call, outcome)
    \/ clearChat

SpecHook == InitChat /\ [][NextHook]_vars

----------------------------------------------------------------------------
(* C15: when the planning stage fails, executeFinancialSearch still        *)
(* returns a result, the sub-questions searched are exactly the original   *)
(* query, and the workflow trace of the returned record marks planning as  *)
(* failed with the fallback flag set.                                      *)
C15_PlanningFallbackTraced ==
    (workflow.pc \in {"searching", "answering", "done"}
     /\ planFinancialResearch(workflow.userQuery).threw) =>
        /\ workflow.searched = <<workflow.userQuery>>
        /\ workflow.returned # Null =>
              /\ Has(workflow.returned.workflow, "steps")
              /\ workflow.returned.workflow.steps.planning # Null
              /\ workflow.returned.workflow.steps.planning.success = FALSE
              /\ Has(workflow.returned.workflow.steps.planning, "fallback")
              /\ workflow.returned.workflow.steps.planning.fallback = TRUE

(* A stage of the workflow failed and nothing stood in for it: the search  *)
(* rejected.  A failed planning call is made up for by the original query  *)
(* and a failed answering call by the apology of generateFinalAnswer.      *)
FailedWithoutRecovery ==
    /\ workflow.steps.searching # Null
    /\ ~workflow.steps.searching.success

(* C16: POST /api/chat answers every valid message with HTTP 200; the body *)
(* has status 'fallback', an apology and an error string when a stage      *)
(* failed without recovery, and status 'success' otherwise.                *)
C16_FallbackOnUnrecoveredFailure ==
    (request.route = "/" /\ ValidMessage(request.message) /\ response.ended) =>
        /\ response.statusCode = 200
        /\ IF FailedWithoutRecovery
           THEN /\ response.body.status = "fallback"
                /\ Has(response.body, "error")
                /\ response.body.answer = "apology for the research"
           ELSE response.body.status = "success"

(* What may stand at each place of the event stream. *)
EventAllowedAt(i) ==
    IF i = 1 THEN {"planning_start"}
    ELSE IF i = 2 THEN {"planning_complete", "planning_error"}
    ELSE IF i = 3 THEN {"message_start"}
    ELSE IF i = Len(response.events) /\ response.ended THEN {"message_end"}
    ELSE {"message_chunk"}

(* C17: a valid POST /api/chat/stream emits planning_start, then one of    *)
(* planning_complete and planning_error, then message_start, then the      *)
(* message_chunk events and message_end last, whether planning succeeds or *)
(* fails.                                                                  *)
C17_EventOrder ==
    (request.route = "/stream" /\ ValidMessage(request.message)) =>
        /\ \A i \in 1..Len(response.events) : response.events[i] \in EventAllowedAt(i)
        /\ response.ended => Len(response.events) >= 5

(* C18: after the response's 'close' event no further event is written to  *)
(* it and no further chunk timer is set.                                   *)
C18_QuietAfterClose ==
    [][response.closed =>
          /\ response'.events = response.events
          /\ stream'.scheduled = stream.scheduled]_vars

(* The message is missing, not a string, empty or only whitespace. *)
Unusable(message) ==
    \/ message.type # "string"
    \/ message.length = 0
    \/ message.trimmed = 0

----------------------------------------------------------------------------
(* C20: once an operation's status is terminal its per-provider result and *)
(* error slots are not written again, in particular not by a provider call *)
(* that completes after the timeout.                                       *)
C20_TerminalSlotsFrozen ==
    [][\A id \in DOMAIN activeSearches \cap DOMAIN activeSearches' :
          activeSearches[id].status \in TerminalStatuses =>
              /\ activeSearches'[id].results.perplexity = activeSearches[id].results.perplexity
              /\ activeSearches'[id].results.firecrawl = activeSearches[id].results.firecrawl
              /\ activeSearches'[id].errors = activeSearches[id].errors]_vars

----------------------------------------------------------------------------
C22_EventuallyRemoved ==
    /\ [][\A id \in DOMAIN activeSearches :
              id \notin DOMAIN activeSearches' => Settled(id)]_vars
    /\ \A id \in SearchIds :
          (id \in DOMAIN activeSearches) ~> (id \notin DOMAIN activeSearches)

(* The operation of a call that rejected has been removed. *)
C22_Witness ==
    \E id \in DOMAIN calls :
        /\ calls[id].pc = "rejected"
        /\ id \notin DOMAIN activeSearches

(* C23: every payload executeFinancialSearch returns, the one of a failed  *)
(* search included, carries a workflow trace, and the trace records        *)
(* success or failure of each stage that ran.                              *)
C23_TraceInEveryPayload ==
    workflow.returned # Null =>
        /\ Has(workflow.returned.workflow, "steps")
        /\ workflow.returned.workflow.steps.planning # Null
        /\ workflow.returned.workflow.steps.searching # Null
        /\ workflow.returned.workflow.steps.searching.success =>
               workflow.returned.workflow.steps.processing # Null


(* C24: when results processing is disabled or fails, Step 3 hands back    *)
(* the fallback shape with one raw item per entry of the successful        *)
(* searches, in their order and without a qualityScore; when it failed,    *)
(* the trace marks processing as failed.                                   *)
PhaseRan == callInput.op = "processingPhase" /\ callOutput # Null

PhaseFailed ==
    /\ PhaseRan
    /\ ProcessingEnabled(callInput.options)
    /\ ProcessingStages(Service_combineSearchResults(callOutput.value.searchResults,
                                                     callInput.subQuestions[1], "s1")).threw

PhaseDisabled == PhaseRan /\ ~ProcessingEnabled(callInput.options)

C24_FallbackOnDisabledOrFailed ==
    (PhaseDisabled \/ PhaseFailed) =>
        LET final == callOutput.value.phase.finalResults
            step == callOutput.value.phase.processing
            successful == callOutput.value.searchResults.successful
            entries == Flatten([i \in 1..Len(successful) |->
                                   successful[i].results.allResults])
        IN  /\ ~callOutput.threw
            /\ Has(final, "search") /\ final.search.fallback
            /\ final.results.total = Len(entries)
            /\ Len(final.results.items) = Len(entries)
            /\ \A i \in 1..Len(entries) :
                  /\ ~Has(final.results.items[i], "qualityScore")
                  /\ Has(entries[i], "source") =>
                         final.results.items[i].source = entries[i].source
                  /\ (Has(entries[i], "title") /\ Truthy(entries[i].title)) =>
                         final.results.items[i].title = entries[i].title
                  /\ (Has(entries[i], "content") /\ Truthy(entries[i].content)) =>
                         final.results.items[i].content = entries[i].content
            /\ PhaseFailed => ~step.success
            /\ PhaseDisabled => step.success

C24_Witness ==
    /\ PhaseFailed
    /\ Len(callInput.subQuestions) = 2
    /\ Len(callOutput.value.phase.finalResults.results.items) = 2
    /\ callOutput.value.phase.finalResults.results.items[1].source = "perplexity"
    /\ callOutput.value.phase.finalResults.results.items[2].source = "firecrawl"


(* C27: executeBatchSearch counts a per-query result as successful only    *)
(* when its status is completed, so with several queries a partial_success *)
(* result is among the failed and its entries are not handed to results    *)
(* processing; with one query the same result is wrapped as successful and *)
(* its entries are processed.                                              *)
HandedToProcessing ==
    Service_combineSearchResults(callOutput.value.searchResults,
                                 callInput.subQuestions[1], "s1").results.allResults.items

IsPartial(r) == r.status = "partial_success"

InSeq(r, s) == \E i \in 1..Len(s) : s[i] = r

C27_PartialSuccessByPath ==
    PhaseRan =>
        LET perQuery == callInput.perQuery
            searchResults == callOutput.value.searchResults
            ofCompleted ==
                Flatten([i \in 1..Len(perQuery) |->
                            IF perQuery[i].status = SearchStatus.COMPLETED
                            THEN perQuery[i].results.allResults ELSE <<>>])
        IN  IF Len(callInput.subQuestions) > 1
            THEN /\ \A i \in 1..Len(perQuery) :
                       /\ InSeq(perQuery[i], searchResults.successful)
                              <=> perQuery[i].status = SearchStatus.COMPLETED
                       /\ IsPartial(perQuery[i]) => InSeq(perQuery[i], searchResults.failed)
                 /\ HandedToProcessing = ofCompleted
                 /\ (\A i \in 1..Len(perQuery) : ~IsCompleted(perQuery[i])) =>
                        callOutput.value.phase.finalResults.results.total = 0
            ELSE /\ searchResults.successful = perQuery
                 /\ searchResults.failed = <<>>
                 /\ HandedToProcessing = perQuery[1].results.allResults

C27_Witness ==
    /\ PhaseRan
    /\ Len(callInput.subQuestions) > 1
    /\ IsPartial(callInput.perQuery[1]) /\ callInput.perQuery[1].results.allResults # <<>>
    /\ IsCompleted(callInput.perQuery[2])
    /\ Len(HandedToProcessing) = Len(callInput.perQuery[2].results.allResults)

C27_WitnessSingle ==
    /\ PhaseRan
    /\ Len(callInput.subQuestions) = 1
    /\ IsPartial(callInput.perQuery[1])
    /\ ~Has(callOutput.value.phase.finalResults.search, "fallback")
    /\ callOutput.value.phase.finalResults.results.total = 1


(* C26: when every enabled provider of a call has failed before the        *)
(* timeout fired, the call resolves with status completed, no entries, no  *)
(* sources and a combined confidence of 0.                                 *)
ProviderFailed(outcome) == outcome \in {"error", "empty", "throw"}

AllProvidersFailed(call) ==
    /\ call.perplexity # "off" \/ call.firecrawl # "off"
    /\ call.perplexity # "off" => ProviderFailed(call.perplexity)
    /\ call.firecrawl # "off" => ProviderFailed(call.firecrawl)

C26_AllFailedIsEmptyCompleted ==
    \A id \in DOMAIN calls :
        (AllProvidersFailed(calls[id]) /\ calls[id].path # "catch") =>
            /\ calls[id].pc = "resolved"
            /\ calls[id].value.status = SearchStatus.COMPLETED
            /\ calls[id].value.results.allResults = <<>>
            /\ calls[id].value.results.sources = <<>>
            /\ calls[id].value.results.summary.combinedConfidence = 0

C26_Witness ==
    \E id \in DOMAIN calls :
        /\ calls[id].perplexity = "error"
        /\ calls[id].firecrawl = "throw"
        /\ calls[id].pc = "resolved"
        /\ calls[id].value.status = SearchStatus.COMPLETED


(* C25: sendChatMessageStream resolves with the texts of all the chunk     *)
(* events the server wrote, in order, and has called onToken once per      *)
(* chunk with the text gathered so far, however the body is cut into reads. *)
C25_ResolvesWithStreamedText ==
    (callInput.op = "sendChatMessageStream" /\ callOutput # Null) =>
        /\ callOutput.value.pc = "resolved"
        /\ callOutput.value.value = [k \in 1..callInput.chunks |-> k]
        /\ callOutput.value.tokens =
              [k \in 1..callInput.chunks |-> [j \in 1..k |-> j]]


(* C28: the response to a valid POST /api/chat/stream is ended no more     *)
(* than once and nothing is written to it once it has been ended, also     *)
(* when it emitted 'error' or 'close' with chunks still scheduled.         *)
C28_EndedOnceThenSilent ==
    (request.route = "/stream" /\ ValidMessage(request.message)) =>
        /\ response.ends <= 1
        /\ ~response.writtenAfterEnd


(* C29: whenever executeParallelSearch calls are pending, a moment comes   *)
(* at which every call made so far has settled, even when a provider never *)
(* answers; and so every executeBatchSearch call, whose chunk size is at   *)
(* least 1, comes to its end.                                              *)
C29_AlwaysSettles ==
    /\ (\E id \in DOMAIN calls : ~Settled(id)) ~> (\A id \in DOMAIN calls : Settled(id))
    /\ (batch.pc # "idle") ~> (batch.pc = "done")

C29_Witness ==
    /\ batch.pc = "done"
    /\ batch.maxConcurrent = 1
    /\ Len(batch.queries) = 2
    /\ \A id \in 1..2 :
          /\ id \in DOMAIN calls
          /\ calls[id].path = "catch"
          /\ calls[id].perplexity = "inflight"


(* C30: isLoading is true exactly while a sendMessage call is still in     *)
(* flight, also when the calls overlap.                                    *)
InFlight == {call \in DOMAIN useChat.sending : useChat.sending[call] # "done"}

C30_LoadingIffInFlight == useChat.isLoading <=> InFlight # {}

============================================================================
